---- MODULE Spec2Model ----
(***************************************************************************)
(* Model of the authenticated-dispatch pipeline of sa_api:                 *)
(*   - the Keycloak signing-key cache   (application/api/keycloak.rs)      *)
(*   - bearer-token verification        (application/api/router.rs)        *)
(*   - the two-level path router        (application/api/router.rs,        *)
(*                                       person_router.rs, speech_router.rs)*)
(* Every request is one task; the tasks share the key cache, which is      *)
(* guarded by a tokio Mutex.                                               *)
(***************************************************************************)
EXTENDS Integers, Sequences, FiniteSets, TLC

VARIABLES
    now,          \* the monotonic clock (Instant::now()), in seconds
    jwks,         \* the key document the remote JWKS endpoint serves at present
    env_url,      \* whether KEYCLOAK_CERTS_URL is set in the environment
    cache_init,   \* whether the lazy_static KEYCLOAK_KEYS_CACHE has been built
    cache,        \* CachedKeys: [keys, last_fetched]
    mutex,        \* the task holding the Mutex<CachedKeys>, or NoTask
    pc,           \* per task: where the task stands
    keys_ret,     \* per task: the result of its get_keycloak_keys call
    did_fetch,    \* per task: its current get_keycloak_keys call hit the endpoint
    in_batch,     \* per task: it called while the entry was expired, at this instant
    req,          \* per task: the request being handled
    token_ret,    \* per task: the result of extract_token
    calls,        \* per task: the manager calls made for the request
    resp,         \* per task: the HTTP response
    store,        \* the rows of the person and speech tables
    params_ret,   \* per task: the map get_query_params_from_raw returned
    local_path,   \* per task: the local path handed to the sub-router
    db,           \* the tables of the database, row by row (SpecPerson, SpecSpeech)
    repo_ret,     \* the last step at the database: the repository method called
                  \* and what it returned, or the statement the server finished
    given,        \* the persons passed to create_person calls that returned Ok
    gone,         \* the uids passed to delete_person calls that returned Ok, and
                  \* to no create_person call since
    pending       \* the statements the database server received and has not
                  \* carried out yet, their caller having returned

vars == <<now, jwks, env_url, cache_init, cache, mutex, pc, keys_ret, did_fetch,
          in_batch, req, token_ret, calls, resp, store, params_ret, local_path,
          db, repo_ret, given, gone, pending>>

keyVars == <<jwks, env_url, cache_init, cache, mutex>>
repoVars == <<db, repo_ret, given, gone, pending>>
reqVars == <<req, token_ret, calls, resp, store, params_ret, local_path, repoVars>>

----------------------------------------------------------------------------
(* Bounds of the model *)

NumCallers == 3      \* concurrent callers of get_keycloak_keys (SpecKeys)
TickSecs == 1800     \* the clock advances by this many seconds at a time
MaxTime == 3600      \* the clock stops advancing here
MaxHeaderLen == 3    \* pieces of an Authorization header value
MaxSegments == 2     \* `&`-separated segments of a query string (SpecQuery)
MaxFields == 3       \* `=`-separated fields of a segment (SpecQuery)
MaxInFlight == 2     \* statements left at the database server by callers that
                     \* returned, at one time: a statement can be left
                     \* behind a COMMIT it waits for
MaxStatements == 1   \* statements of the person repository left at the
                     \* server at one time (SpecPerson)

(* Program constant: Duration::from_secs(3600) *)
TTL == 3600

NoTask == 0

\* The database before any row is written, and no repository call yet
EmptyDb == [person |-> {}, speech |-> {}, speech_person |-> {}, sentence |-> {}]
NoCall == [op |-> "none", arg |-> "none", result |-> "none", value |-> "none"]
Tasks == DOMAIN pc

----------------------------------------------------------------------------
(* Key documents and key sets *)

Kids == {"k1", "k2"}
\* RSA moduli as served in the `n` field; "!!" is not base64, "absent" is
\* an entry without the fields `n` and `e` (an EC or OKP key has none)
Moduli == {"nA", "nB", "!!", "absent"}

KeycloakKey(kid, kty, n) == [kid |-> kid, kty |-> kty, n |-> n]

\* The documents the endpoint serves over time: a plain RSA key, a rotated
\* key set with an extra non-RSA entry (one that has the fields `n` and `e`
\* all the same, and one that has the fields of an EC key), a set reusing a
\* kid, one whose RSA entry has undecodable components, and an empty one.
JwksDocs ==
    { << KeycloakKey("k1", "RSA", "nA") >>,
      << KeycloakKey("k2", "RSA", "nB"), KeycloakKey("k1", "EC", "nA") >>,
      << KeycloakKey("k1", "RSA", "nA"), KeycloakKey("k2", "EC", "absent") >>,
      << KeycloakKey("k1", "RSA", "nA"), KeycloakKey("k1", "RSA", "nB") >>,
      << KeycloakKey("k2", "EC", "!!"), KeycloakKey("k1", "RSA", "!!") >>,
      << >> }

EmptyKeys == [k \in {} |-> "nA"]

\* HashMap::insert
Insert(m, k, v) == [x \in (DOMAIN m) \cup {k} |-> IF x = k THEN v ELSE m[x]]

\* DecodingKey::from_rsa_components(&key.n, &key.e): fails when a component
\* is not base64
FromRsaComponentsOk(n) == n # "!!"

\* keycloak.rs 57-63: the loop over keycloak_certs.keys. The result is
\* [ok, keys]; ok is FALSE when a `?` of the loop returned early.
RECURSIVE BuildKeys(_, _)
BuildKeys(doc, acc) ==
    IF doc = << >> THEN [ok |-> TRUE, keys |-> acc]
    ELSE LET key == Head(doc) IN
         IF key.kty = "RSA"
         THEN IF FromRsaComponentsOk(key.n)
              THEN BuildKeys(Tail(doc), Insert(acc, key.kid, key.n))
              ELSE [ok |-> FALSE, keys |-> EmptyKeys]
         ELSE BuildKeys(Tail(doc), acc)

\* keycloak.rs 54: response.json::<KeycloakCerts>(): kid, n, e and kty are
\* required fields of every entry (lines 16-22)
Deserializes(doc) == \A i \in DOMAIN doc : doc[i].n # "absent"

\* keycloak.rs 54-63: the document is deserialized, then the key set built
Refresh(doc) ==
    IF Deserializes(doc) THEN BuildKeys(doc, EmptyKeys)
    ELSE [ok |-> FALSE, keys |-> EmptyKeys]

KeysErr == [ok |-> FALSE, keys |-> EmptyKeys]
KeysOk(k) == [ok |-> TRUE, keys |-> k]
NoRet == [ok |-> FALSE, keys |-> EmptyKeys, none |-> TRUE]

IsFreshUpToTtl(t, last_fetched) == t - last_fetched <= TTL

IsFreshHalfTtl(t, last_fetched) == 2 * (t - last_fetched) < TTL

\* keycloak.rs 44: cache.last_fetched.elapsed() < Duration::from_secs(3600)
IsFresh(t, last_fetched) == t - last_fetched < TTL

InitialCacheFresh(t) == [keys |-> EmptyKeys, last_fetched |-> t]

\* keycloak.rs 31-36: the value the lazy_static is built with at first access
InitialCache(t) == [keys |-> EmptyKeys, last_fetched |-> t - TTL]

\* The cache as a task sees it when it dereferences KEYCLOAK_KEYS_CACHE
CacheAt(t) == IF cache_init THEN cache ELSE InitialCache(t)

MutexFreeAlways(m) == TRUE

\* tokio Mutex::lock().await completes only when no task holds the mutex
MutexFree(m) == m = NoTask

\* The outcomes of client.get(url).send().await? and response.json().await?
FetchOutcomes == {"ok", "network_error", "bad_document"}

CacheAfterFetchKeepStamp(c, outcome, built, t) ==
    IF outcome = "ok" /\ built.ok
    THEN [keys |-> built.keys, last_fetched |-> c.last_fetched]
    ELSE c

CacheAfterFetchStampFailure(c, outcome, built, t) ==
    IF outcome = "ok" /\ built.ok
    THEN [keys |-> built.keys, last_fetched |-> t]
    ELSE [keys |-> c.keys, last_fetched |-> t]

\* HashMap::extend: the entries of `new` added to those of `old`
Merge(old, new) ==
    [k \in (DOMAIN old) \cup (DOMAIN new) |->
        IF k \in DOMAIN new THEN new[k] ELSE old[k]]

CacheAfterFetchMerges(c, outcome, built, t) ==
    IF outcome = "ok" /\ built.ok
    THEN [keys |-> Merge(c.keys, built.keys), last_fetched |-> t]
    ELSE c

\* keycloak.rs 53-67: the entry after the answer of the endpoint. A `?` that
\* returns early leaves it alone; otherwise keys and last_fetched are replaced.
CacheAfterFetch(c, outcome, built, t) ==
    IF outcome = "ok" /\ built.ok
    THEN [keys |-> built.keys, last_fetched |-> t]
    ELSE c

----------------------------------------------------------------------------
(* get_keycloak_keys, keycloak.rs 39-70 *)

\* The call: the task starts waiting for the mutex (line 41).
EnterGetKeys(t) ==
    /\ pc' = [pc EXCEPT ![t] = "lock"]
    /\ keys_ret' = [keys_ret EXCEPT ![t] = NoRet]
    /\ did_fetch' = [did_fetch EXCEPT ![t] = FALSE]
    /\ in_batch' = [in_batch EXCEPT ![t] = ~IsFresh(now, CacheAt(now).last_fetched)]

\* Lines 41-53: the mutex is acquired, the entry's age is checked; a fresh
\* entry is returned at once (the guard is dropped); otherwise the URL is
\* read and the request is sent, the task keeping the mutex across the await.
KeysAcquire(t) ==
    /\ pc[t] = "lock"
    /\ MutexFree(mutex)
    /\ cache_init' = TRUE
    /\ cache' = CacheAt(now)
    /\ IF IsFresh(now, CacheAt(now).last_fetched)
       THEN /\ keys_ret' = [keys_ret EXCEPT ![t] = KeysOk(CacheAt(now).keys)]
            /\ pc' = [pc EXCEPT ![t] = "keys_done"]
            /\ UNCHANGED <<mutex, did_fetch>>
       ELSE IF ~env_url
       THEN /\ keys_ret' = [keys_ret EXCEPT ![t] = KeysErr]
            /\ pc' = [pc EXCEPT ![t] = "keys_done"]
            /\ UNCHANGED <<mutex, did_fetch>>
       ELSE /\ mutex' = t
            /\ did_fetch' = [did_fetch EXCEPT ![t] = TRUE]
            /\ pc' = [pc EXCEPT ![t] = "fetching"]
            /\ UNCHANGED keys_ret
    /\ UNCHANGED <<now, jwks, env_url, in_batch>>
    /\ UNCHANGED reqVars

\* Lines 53-69: the answer of the endpoint arrives; the document is parsed,
\* the key set is built and the entry replaced; every return drops the guard.
FetchReturn(t) ==
    /\ pc[t] = "fetching"
    /\ \E outcome \in FetchOutcomes :
         LET built == Refresh(jwks) IN
         /\ cache' = CacheAfterFetch(cache, outcome, built, now)
         /\ keys_ret' = [keys_ret EXCEPT ![t] =
                IF outcome = "ok" /\ built.ok THEN KeysOk(built.keys) ELSE KeysErr]
    /\ mutex' = NoTask
    /\ pc' = [pc EXCEPT ![t] = "keys_done"]
    /\ UNCHANGED <<now, jwks, env_url, cache_init, did_fetch, in_batch>>
    /\ UNCHANGED reqVars

DropCallKeepsGuard(t) ==
    /\ pc[t] \in {"lock", "fetching"}
    /\ pc' = [pc EXCEPT ![t] = "idle"]
    /\ keys_ret' = [keys_ret EXCEPT ![t] = NoRet]
    /\ UNCHANGED <<now, jwks, env_url, cache_init, cache, mutex, did_fetch, in_batch>>
    /\ UNCHANGED reqVars

\* The future of a call is dropped at an await, line 41 (the wait for the
\* mutex) or lines 53-54 (the wait for the endpoint), when the connection it
\* serves goes away: the MutexGuard it holds is dropped with it.  Nothing
\* else ends the wait for the endpoint: Client::new() (line 51) sets no
\* timeout.
DropCall(t) ==
    /\ pc[t] \in {"lock", "fetching"}
    /\ mutex' = IF mutex = t THEN NoTask ELSE mutex
    /\ pc' = [pc EXCEPT ![t] = "idle"]
    /\ keys_ret' = [keys_ret EXCEPT ![t] = NoRet]
    /\ UNCHANGED <<now, jwks, env_url, cache_init, cache, did_fetch, in_batch>>
    /\ UNCHANGED reqVars

----------------------------------------------------------------------------
(* The environment *)

\* Time passes.
Tick ==
    /\ now + TickSecs <= MaxTime
    /\ now' = now + TickSecs
    /\ in_batch' = [t \in Tasks |-> FALSE]
    /\ UNCHANGED <<pc, keys_ret, did_fetch>>
    /\ UNCHANGED keyVars
    /\ UNCHANGED reqVars

\* The identity provider publishes another key document.
Rotate(docs) ==
    /\ \E d \in docs \ {jwks} : jwks' = d
    /\ UNCHANGED <<now, env_url, cache_init, cache, mutex, pc, keys_ret, did_fetch, in_batch>>
    /\ UNCHANGED reqVars

----------------------------------------------------------------------------
(* Tokens and the Authorization header *)

\* token.rs 5-15: the closed enum
Permissions == {"GetSpeech", "CreateSpeech", "DeleteSpeech", "UpdateSpeech",
                "GetPerson", "CreatePerson", "UpdatePerson", "DeletePerson"}

\* Strings a token may carry in its `permissions` claim
PermStrings == Permissions \cup {"Admin"}

PermissionParsesAny(s) == TRUE

\* token.rs 5-15: the derived Deserialize of the enum
PermissionParses(s) == s \in Permissions

\* token.rs 42-50: AuthToken::default()
NoError == [code |-> 0, error |-> "", details |-> ""]

\* Result<AuthToken, HttpError>
TokenOk(user, permissions) ==
    [ok |-> TRUE, user |-> user, permissions |-> permissions, error |-> NoError]
TokenErr(e) == [ok |-> FALSE, user |-> "none", permissions |-> {}, error |-> e]
NoToken == [ok |-> FALSE, user |-> "none", permissions |-> {}, error |-> NoError]

DefaultAuthTokenCreates == TokenOk("none", {"GetPerson", "GetSpeech", "CreatePerson"})

\* token.rs 42-50: impl Default for AuthToken
DefaultAuthToken == TokenOk("none", {"GetPerson", "GetSpeech"})

\* router.rs 268
INVALID_TOKEN ==
    [code |-> 400, error |-> "InvalidToken",
     details |-> "The token you provided is invalid"]

\* router.rs 49-65
INTERNAL_ERROR ==
    [code |-> 500, error |-> "InternalError",
     details |-> "An internal error occured, please contact our technical service"]
NOT_FOUND_ERROR ==
    [code |-> 404, error |-> "NotFound",
     details |-> "The requested resource is not found"]
ACCESS_DENIED_ERROR ==
    [code |-> 403, error |-> "AccessDenied",
     details |-> "You cannot access to this ressource"]

\* router.rs 277
ExpectedAudience == "speech-analytics-front-end"

\* A compact JWT: the key id and algorithm of its header, the key pair that
\* signed it (named by its modulus), whether its `exp` lies
\* in the past when it is verified, its audience and its permission strings.
Algs == {"RS256", "HS256", "none"}
Signers == {"nA", "nB"}
Audiences == {ExpectedAudience, "other-client"}
Jwt(kid, alg, sig, expired, aud, perms) ==
    [kid |-> kid, alg |-> alg, sig |-> sig, expired |-> expired, aud |-> aud,
     user |-> "u1", perms |-> perms]

\* An Authorization value is a sequence of pieces: the literal "Bearer ",
\* the compact token "JWT" (the token of the request), or other text "x"
\* (text that holds no "Bearer " and is no part of a token).
BEARER == "Bearer "
HeaderPieces == {BEARER, "JWT", "x"}

RECURSIVE IndexOf(_, _, _)
\* the first index >= i of piece p in sequence s, 0 when there is none
IndexOf(s, p, i) ==
    IF i > Len(s) THEN 0
    ELSE IF s[i] = p THEN i
    ELSE IndexOf(s, p, i + 1)

\* router.rs 272: raw_token.split("Bearer ").skip(1).next(): the text between
\* the first and the second occurrence of "Bearer " (or the end).
\* [some, part]
SplitBearerSecond(raw) ==
    LET first == IndexOf(raw, BEARER, 1) IN
    IF first = 0 THEN [some |-> FALSE, part |-> << >>]
    ELSE LET second == IndexOf(raw, BEARER, first + 1)
             last == IF second = 0 THEN Len(raw) ELSE second - 1
         IN [some |-> TRUE, part |-> SubSeq(raw, first + 1, last)]

\* jsonwebtoken::decode_header(token_part): the text must be one compact
\* token whose header names a known algorithm
DecodeHeaderOk(part, tok) == part = << "JWT" >> /\ tok.alg # "none"

\* jsonwebtoken::decode(token_part, key, &validation) with
\* Validation::new(RS256) and the audience set (router.rs 276-277, 292):
\* algorithm, signature, expiry and audience are checked and the claims are
\* deserialized into AuthToken
DecodeOk(tok, key) ==
    /\ tok.alg = "RS256"
    /\ tok.sig = key
    /\ ~tok.expired
    /\ tok.aud = ExpectedAudience
    /\ \A s \in tok.perms : PermissionParses(s)

ExtractTokenRejectsEmpty(raw, tok, keys) ==
    LET split == SplitBearerSecond(raw) IN
    IF ~split.some THEN TokenErr(INVALID_TOKEN)
    ELSE IF ~DecodeHeaderOk(split.part, tok) THEN TokenErr(INVALID_TOKEN)
    ELSE IF tok.kid = "absent" THEN TokenErr(INVALID_TOKEN)
    ELSE IF tok.kid \notin DOMAIN keys THEN TokenErr(INVALID_TOKEN)
    ELSE IF ~DecodeOk(tok, keys[tok.kid]) THEN TokenErr(INVALID_TOKEN)
    ELSE TokenOk(tok.user, tok.perms)

ExtractTokenTriesEveryKey(raw, tok, keys) ==
    IF raw = << >> THEN DefaultAuthToken
    ELSE LET split == SplitBearerSecond(raw) IN
    IF ~split.some THEN TokenErr(INVALID_TOKEN)
    ELSE IF ~DecodeHeaderOk(split.part, tok) THEN TokenErr(INVALID_TOKEN)
    ELSE IF tok.kid = "absent" THEN TokenErr(INVALID_TOKEN)
    ELSE IF \E k \in DOMAIN keys : DecodeOk(tok, keys[k])
         THEN TokenOk(tok.user, tok.perms)
    ELSE TokenErr(INVALID_TOKEN)

\* router.rs 264-301
ExtractToken(raw, tok, keys) ==
    IF raw = << >> THEN DefaultAuthToken
    ELSE LET split == SplitBearerSecond(raw) IN
    IF ~split.some THEN TokenErr(INVALID_TOKEN)
    ELSE IF ~DecodeHeaderOk(split.part, tok) THEN TokenErr(INVALID_TOKEN)
    ELSE IF tok.kid = "absent" THEN TokenErr(INVALID_TOKEN)
    ELSE IF tok.kid \notin DOMAIN keys THEN TokenErr(INVALID_TOKEN)
    ELSE IF ~DecodeOk(tok, keys[tok.kid]) THEN TokenErr(INVALID_TOKEN)
    ELSE TokenOk(tok.user, tok.perms)

\* router.rs 195-199: headers.get("Authorization")
\*   .unwrap_or(&HeaderValue::from_static("")).to_str().unwrap_or("")
HeaderKinds == {"absent", "opaque", "text"}
RawToken(auth) == IF auth.kind = "text" THEN auth.value ELSE << >>

----------------------------------------------------------------------------
(* Requests *)

\* The methods of the requests route_requests is given.  The CorsLayer of
\* run (router.rs 119-123) answers every OPTIONS request itself, so none
\* reaches route_requests; PUT stands for the methods no route has.
Methods == {"GET", "POST", "DELETE", "PUT"}
Uuids == {"u1"}

AuthHeader(kind, value) == [kind |-> kind, value |-> value]

\* The token of a request whose header holds none
NoJwt == Jwt("absent", "none", "nA", FALSE, "other-client", {})

\* A request; a part route_requests has not read yet is "unread"
NoRequest ==
    [path |-> << >>, auth |-> AuthHeader("unread", << >>), tok |-> NoJwt,
     method |-> "unread", query |-> << >>, body |-> "unread"]

\* Response<BoxBody>: the status and the serialized value or error
NoResponse == [status |-> 0, value |-> "none", error |-> NoError]

\* A path is the sequence of its segments, path.split("/").skip(1).  A text
\* with slashes is the sequence of its non-empty pieces and of the "/"
\* between them; "" is the empty sequence.
JoinFirstSegment(segs) ==
    IF segs = << >> \/ Head(segs) = "" THEN << >> ELSE << Head(segs) >>

\* router.rs 205: splitted_path.collect::<Vec<&str>>().join("/")
RECURSIVE Join(_)
Join(segs) ==
    IF segs = << >> THEN << >>
    ELSE LET first == IF Head(segs) = "" THEN << >> ELSE << Head(segs) >> IN
         IF Len(segs) = 1 THEN first
         ELSE first \o << "/" >> \o Join(Tail(segs))

\* The local path is "": the join of no segment or of one empty segment
IsEmptyPath(local) == local = << >> \/ local = << "" >>

\* Uuid::from_str(path)
UuidParses(local) == Len(local) = 1 /\ local[1] \in Uuids

\* str::parse::<u16>()
U16Strings == {"0", "1", "2", "10", "65535"}
ParsesU16(s) == s \in U16Strings
U16Of(s) == CASE s = "0" -> 0 [] s = "1" -> 1 [] s = "2" -> 2 [] s = "10" -> 10
              [] s = "65535" -> 65535
\* The values of a u16 are those below 2^16
U16Modulus == 65536

\* A query string is the sequence of its `&`-separated segments, each the
\* sequence of its `=`-separated fields.
EmptyParams == [k \in {} |-> ""]

\* Only the first segment is read
GetQueryParamsFromRawFirstOnly(raw_params, query_params) ==
    IF raw_params # << >> /\ Len(Head(raw_params)) >= 2
    THEN Insert(query_params, Head(raw_params)[1], Head(raw_params)[2])
    ELSE query_params

RECURSIVE GetQueryParamsFromRaw(_, _)
\* router.rs 250-262
GetQueryParamsFromRaw(raw_params, query_params) ==
    IF raw_params = << >> THEN query_params
    ELSE LET param_splitted == Head(raw_params) IN
         IF Len(param_splitted) >= 2
         THEN GetQueryParamsFromRaw(Tail(raw_params),
                  Insert(query_params, param_splitted[1], param_splitted[2]))
         ELSE GetQueryParamsFromRaw(Tail(raw_params), query_params)

\* speech_router.rs 296-330, on the values a `speakers` parameter takes in
\* the model: [ok, list]
ExtractArrayInQuery(array_field, query_params) ==
    IF array_field \notin DOMAIN query_params THEN [ok |-> TRUE, list |-> << >>]
    ELSE LET array_raw == query_params[array_field] IN
         CASE array_raw = "%5Bu1%5D" -> [ok |-> TRUE, list |-> << "u1" >>]
           [] array_raw = "%5Bzz%5D" -> [ok |-> TRUE, list |-> << "zz" >>]
           [] array_raw = "%5B%5D"   -> [ok |-> TRUE, list |-> << "" >>]
           [] OTHER                  -> [ok |-> FALSE, list |-> << >>]

HttpError(code, error, details) == [code |-> code, error |-> error, details |-> details]

\* Result<Value, HttpError>
Ok(value) == [ok |-> TRUE, value |-> value, error |-> NoError]
Err(e) == [ok |-> FALSE, value |-> "none", error |-> e]

\* What a repository answers to a manager call
\* InternalError(String): the text is that of the timeout (Elapsed), of the
\* database error or of any other sqlx::Error (postgres_repository.rs 17-23,
\* repository.rs 31-35)
ELAPSED == "InternalError(deadline has elapsed)"
FOREIGN_KEY == "InternalError(violates foreign key constraint)"
UNDEFINED_COLUMN == "InternalError(column \"status\" does not exist)"
\* A connection, a begin or a commit that fails (any sqlx::Error that is no
\* database error)
IO_ERROR == "InternalError(error communicating with database)"
\* repository.rs 287-335: the timeout of a DELETE of delete_speech
CANNOT_DELETE == "InternalError(Cannot delete speech from db)"
InternalErrors == {ELAPSED, FOREIGN_KEY, UNDEFINED_COLUMN, IO_ERROR, CANNOT_DELETE}
PersonOutcomes == {"ok", "not_found", "already_exists"} \cup InternalErrors
\* SpeechRepositoryError adds PersonError(PersonRepositoryError)
SpeechOutcomes == PersonOutcomes \cup {"person_not_found"}
RepoOutcomes(service) ==
    IF service = "person" THEN PersonOutcomes ELSE SpeechOutcomes

PersonErrorToHttpShowsText(outcome) ==
    CASE outcome = "not_found" ->
           HttpError(404, "PersonNotFound", "The person requested is not found")
      [] outcome = "already_exists" ->
           HttpError(409, "PersonAlreadyExists",
                     "The person you try to create already exists.")
      [] OTHER -> HttpError(500, "InternalError", outcome)

\* person_router.rs 68-88
PersonErrorToHttp(outcome) ==
    CASE outcome = "not_found" ->
           HttpError(404, "PersonNotFound", "The person requested is not found")
      [] outcome = "already_exists" ->
           HttpError(409, "PersonAlreadyExists",
                     "The person you try to create already exists.")
      [] OTHER -> INTERNAL_ERROR

SpeechErrorToHttpDropsPersonError(outcome) ==
    CASE outcome = "not_found" ->
           HttpError(404, "SpeechNotFound", "The speech requested is not found")
      [] outcome = "already_exists" ->
           HttpError(409, "SpeechAlreadyExists",
                     "The speech you try to create already exists.")
      [] OTHER -> INTERNAL_ERROR

\* speech_router.rs 20-40
SpeechErrorToHttp(outcome) ==
    CASE outcome = "person_not_found" -> PersonErrorToHttp("not_found")
      [] outcome = "not_found" ->
           HttpError(404, "SpeechNotFound", "The speech requested is not found")
      [] outcome = "already_exists" ->
           HttpError(409, "SpeechAlreadyExists",
                     "The speech you try to create already exists.")
      [] OTHER -> INTERNAL_ERROR

\* Bodies: text that is no JSON, JSON of another shape, a person input (with a
\* good or a bad birth date), a speech input (good, or with one bad field)
Bodies == {"", "not_json", "other", "person", "person_bad_birth_date",
           "speech", "speech_bad_sentence_speaker", "speech_bad_date",
           "speech_bad_speakers"}

\* router.rs 174-175: serde_json::from_reader(..).unwrap_or(Value::Null)
ParseBody(raw_body) == IF raw_body \in {"", "not_json"} THEN "null" ELSE raw_body

\* serde_json::from_value::<CreatePersonInput>(body)
IsCreatePersonInput(body) == body \in {"person", "person_bad_birth_date"}
\* serde_json::from_value::<CreateSpeechInput>(body)
IsCreateSpeechInput(body) ==
    body \in {"speech", "speech_bad_sentence_speaker", "speech_bad_date",
              "speech_bad_speakers"}

\* token.permissions().contains(&permission)
HasPermission(token, permission) == permission \in token.permissions

Routed(result, made) == [result |-> result, calls |-> made]
Call(op, arg) == [op |-> op, arg |-> arg]
\* The calls made, each with what the manager returned
Returned(made, outcome) ==
    [i \in DOMAIN made |->
        [op |-> made[i].op, arg |-> made[i].arg, returned |-> outcome]]

\* The tables of the two repositories: the uids of the rows of `person` and
\* of `speech`.  The person a create_person call inserts and the speech a
\* create_speech call inserts get the uid of the model (Uuid::new_v4()); the
\* speech names that person as its speaker.
EmptyStore == [person |-> {}, speech |-> {}]
\* The stores the foreign keys allow: a speech has its speaker
Stores ==
    {st \in [person : SUBSET Uuids, speech : SUBSET Uuids] :
        st.speech # {} => st.person # {}}

\* What a manager call returns, the store it leaves, the call whose
\* statement it leaves with the server, and the call in flight whose
\* statement the server carried out while the call ran
Answer(outcome, st) == [outcome |-> outcome, store |-> st, late |-> {}, done |-> {}]
LateAnswer(outcome, st, call) ==
    [outcome |-> outcome, store |-> st, late |-> {call}, done |-> {}]
AnswerAfter(outcome, st, call) ==
    [outcome |-> outcome, store |-> st, late |-> {}, done |-> {call}]

\* What the person repository answers to a call of the router when the
\* database answers (postgres_repository.rs 10-25, 90-175).  The router
\* knows one person, that of the body `person`, and every create gets a uid
\* of its own (Uuid::new_v4), so a stored person is that person under
\* another uid and a second insert of it violates unique_identity (a create
\* of a stored uid, or of another identity, is in create_person below);
\* fetch_one of no row is RowNotFound; DELETE of no row succeeds; DELETE of
\* a person a speech refers to violates the foreign key of speech_person,
\* which is an internal error.
PersonRepository(st, call) ==
    CASE call.op = "create_person" ->
           IF st.person # {} THEN Answer("already_exists", st)
           ELSE Answer("ok", [st EXCEPT !.person = Uuids])
      [] call.op = "get_person_by_id" ->
           IF call.arg \in st.person THEN Answer("ok", st)
           ELSE Answer("not_found", st)
      [] call.op = "get_people" -> Answer("ok", st)
      [] call.op = "delete_person" ->
           IF call.arg \in st.person /\ st.speech # {} THEN Answer(FOREIGN_KEY, st)
           ELSE Answer("ok", [st EXCEPT !.person = @ \ {call.arg}])

\* What the speech repository answers when the database answers
\* (repository.rs 18-36, 124-338): the insert into speech comes first
\* (unique_speech), then the inserts into speech_person (foreign key to
\* person), all in one transaction; the three DELETEs of delete_speech
\* succeed on no row.  get_speech_by_id reads the speech row with fetch_one
\* (RowNotFound when there is none), then selects the column `status` of
\* sentence (line 228), which the table (81-90) does not have: the database
\* rejects the statement, so the speech of a stored row is never returned.
SpeechRepository(st, call) ==
    CASE call.op = "create_speech" ->
           IF st.speech # {} THEN Answer("already_exists", st)
           ELSE IF st.person = {} THEN Answer("person_not_found", st)
           ELSE Answer("ok", [st EXCEPT !.speech = Uuids])
      [] call.op = "get_speech_by_id" ->
           IF call.arg \in st.speech THEN Answer(UNDEFINED_COLUMN, st)
           ELSE Answer("not_found", st)
      [] call.op = "get_speech" -> Answer("ok", st)
      [] call.op = "delete_speech" ->
           Answer("ok", [st EXCEPT !.speech = @ \ {call.arg}])

PersonCalls == {"create_person", "get_person_by_id", "get_people", "delete_person"}

\* `page * quantity` of the list operations is a product of two u16
\* (postgres_repository.rs 146, repository.rs 379 and 481): a product that
\* is no u16 panics in a build with overflow checks and wraps in one without.
ListCalls == {"get_people", "get_speech"}
Overflows(call) ==
    call.op \in ListCalls /\ call.arg[1] * call.arg[2] >= U16Modulus
\* (page * quantity) as i32 when the product wraps
WrappedOffset(call) == (call.arg[1] * call.arg[2]) % U16Modulus

\* What the repository of a call answers when the database answers
RepositoryAnswer(st, call) ==
    IF call.op \in PersonCalls THEN PersonRepository(st, call)
    ELSE SpeechRepository(st, call)

\* The store once the server has carried out the statement of a call that
\* was left with it: the INSERT or the DELETE of the person repository, the
\* COMMIT of create_speech or delete_speech
Completed(st, call) == RepositoryAnswer(st, call).store

\* A statement that meets a row an open transaction wrote or deleted, or a
\* row it refers to, waits for the transaction to end: the INSERT of
\* create_speech and the DELETE of delete_person wait for a COMMIT of
\* create_speech or delete_speech in flight when the database answers them
\* otherwise after it than before, and the DELETEs of delete_speech wait
\* for the COMMIT of a delete_speech of the same speech.
WaitsForStore(st, in_flight, call) ==
    \E c \in in_flight :
        /\ c.op \in {"create_speech", "delete_speech"}
        /\ \/ /\ call.op \in {"create_speech", "delete_person"}
              /\ RepositoryAnswer(st, call).outcome
                   # RepositoryAnswer(Completed(st, c), call).outcome
           \/ /\ call.op = "delete_speech" /\ c.op = "delete_speech"
              /\ call.arg = c.arg /\ call.arg \in st.speech

StateChangingCalls == {"create_person", "delete_person", "create_speech", "delete_speech"}

\* The answers to the manager calls a sub-router made (none or one).
\*  - Every call can fail before the database answers it, at the
\*    connection, at begin or by the timeout of a statement: an internal
\*    error, the store as it was (a transaction is rolled back).  The one
\*    statement of create_person or delete_person (postgres_repository.rs
\*    96-109, 167-173: no transaction) may then be left with the server,
\*    which carries it out after the call returned.
\*  - A call that waits for a COMMIT in flight has these answers only: with
\*    the COMMIT carried out first (ServerCompletes) it waits no more.
\*  - Otherwise the repository's answer; or an error that came after the
\*    server carried out the statement of create_person or delete_person
\*    or the COMMIT of create_speech or delete_speech (repository.rs 206,
\*    336: the store is as the database left it); or that error with the
\*    COMMIT left with the server.
\*  - The three DELETEs of delete_speech each see what is committed when
\*    they start: when the COMMIT of a create_speech of that speech is
\*    carried out after the first DELETE found no link, DELETE FROM speech
\*    finds the speech its links refer to, the foreign key is violated and
\*    From<Error> (repository.rs 25-27) makes that
\*    PersonError(PersonNotFound); the speech stays.
ManagerAnswers(st, in_flight, made) ==
    IF made = << >> THEN {Answer("ok", st)}
    ELSE LET call == made[1]
             answer == RepositoryAnswer(st, call)
         IN {Answer(e, st) : e \in {ELAPSED, IO_ERROR}}
            \cup (IF call.op = "delete_speech" THEN {Answer(CANNOT_DELETE, st)}
                  ELSE {})
            \cup (IF call.op \in {"create_person", "delete_person"}
                  THEN {LateAnswer(e, st, call) : e \in {ELAPSED, IO_ERROR}}
                  ELSE {})
            \cup (IF WaitsForStore(st, in_flight, call) THEN {}
                  ELSE {answer}
                       \cup (IF call.op \in {"create_person", "delete_person"}
                             THEN {Answer(e, answer.store) : e \in {ELAPSED, IO_ERROR}}
                             ELSE {})
                       \cup (IF call.op \in {"create_speech", "delete_speech"}
                                /\ answer.outcome = "ok"
                             THEN {Answer(IO_ERROR, answer.store),
                                   LateAnswer(IO_ERROR, st, call)}
                             ELSE {})
                       \cup (IF call.op = "delete_speech"
                             THEN {AnswerAfter("person_not_found", Completed(st, c), c) :
                                     c \in {c \in in_flight :
                                              /\ c.op = "create_speech"
                                              /\ call.arg \in Completed(st, c).speech
                                              /\ call.arg \notin st.speech}}
                             ELSE {})
                       \cup (IF Overflows(call) THEN {Answer("panic", st)} ELSE {}))

----------------------------------------------------------------------------
(* The sub-routers.  `outcome` is what the repository answers if the manager
   is called; the result is [result, calls]. *)

ParamOr(query_params, name, default) ==
    IF name \in DOMAIN query_params THEN query_params[name] ELSE default

\* person_router.rs 99-115
PersonCreate(token, body, outcome) ==
    IF ~HasPermission(token, "CreatePerson") THEN Routed(Err(ACCESS_DENIED_ERROR), << >>)
    ELSE IF ~IsCreatePersonInput(body)
    THEN Routed(Err(HttpError(400, "InvalidFormat",
             "The body format is invalid. Please refer to the documentation")), << >>)
    ELSE IF body = "person_bad_birth_date"
    THEN Routed(Err(HttpError(400, "InvalidBirthDate",
             "The birth date supplied has an invalid format")), << >>)
    ELSE Routed(IF outcome = "ok" THEN Ok("null") ELSE Err(PersonErrorToHttp(outcome)),
                << Call("create_person", body) >>)

PersonListValidatesFirst(query_params, token, outcome) ==
    LET page_raw == ParamOr(query_params, "page", "0")
        quantity_raw == ParamOr(query_params, "quantity", "10")
    IN
    IF ~ParsesU16(page_raw)
    THEN Routed(Err(HttpError(400, "InvalidPageParam",
             "The page parameter provided must be an integer > 0")), << >>)
    ELSE IF ~ParsesU16(quantity_raw)
    THEN Routed(Err(HttpError(400, "InvalidQuantityParam",
             "The quantity parameter provided must be an integer > 0")), << >>)
    ELSE IF ~HasPermission(token, "GetPerson") THEN Routed(Err(ACCESS_DENIED_ERROR), << >>)
    ELSE Routed(IF outcome = "ok" THEN Ok("people") ELSE Err(PersonErrorToHttp(outcome)),
                << Call("get_people", << U16Of(page_raw), U16Of(quantity_raw) >>) >>)

\* person_router.rs 116-155
PersonList(query_params, token, outcome) ==
    IF ~HasPermission(token, "GetPerson") THEN Routed(Err(ACCESS_DENIED_ERROR), << >>)
    ELSE LET page_raw == ParamOr(query_params, "page", "0")
             quantity_raw == ParamOr(query_params, "quantity", "10")
         IN
    IF ~ParsesU16(page_raw)
    THEN Routed(Err(HttpError(400, "InvalidPageParam",
             "The page parameter provided must be an integer > 0")), << >>)
    ELSE IF ~ParsesU16(quantity_raw)
    THEN Routed(Err(HttpError(400, "InvalidQuantityParam",
             "The quantity parameter provided must be an integer > 0")), << >>)
    ELSE Routed(IF outcome = "ok" THEN Ok("people") ELSE Err(PersonErrorToHttp(outcome)),
                << Call("get_people", << U16Of(page_raw), U16Of(quantity_raw) >>) >>)

\* person_router.rs 156-178
PersonGetById(path, token, outcome) ==
    IF ~HasPermission(token, "GetPerson") THEN Routed(Err(ACCESS_DENIED_ERROR), << >>)
    ELSE IF ~UuidParses(path)
    THEN Routed(Err(HttpError(400, "InvalidUID",
             "The UID you provided seems not to ba a valid UUIDv4")), << >>)
    ELSE Routed(IF outcome = "ok" THEN Ok("person") ELSE Err(PersonErrorToHttp(outcome)),
                << Call("get_person_by_id", path[1]) >>)

PersonDeleteChecksGet(path, token, outcome) ==
    IF ~HasPermission(token, "GetPerson") THEN Routed(Err(ACCESS_DENIED_ERROR), << >>)
    ELSE IF ~UuidParses(path)
    THEN Routed(Err(HttpError(400, "InvalidUID",
             "The UID you provided seems not to ba a valid UUIDv4")), << >>)
    ELSE Routed(IF outcome = "ok" THEN Ok("null") ELSE Err(PersonErrorToHttp(outcome)),
                << Call("delete_person", path[1]) >>)

\* person_router.rs 179-193
PersonDelete(path, token, outcome) ==
    IF ~HasPermission(token, "DeletePerson") THEN Routed(Err(ACCESS_DENIED_ERROR), << >>)
    ELSE IF ~UuidParses(path)
    THEN Routed(Err(HttpError(400, "InvalidUID",
             "The UID you provided seems not to ba a valid UUIDv4")), << >>)
    ELSE Routed(IF outcome = "ok" THEN Ok("null") ELSE Err(PersonErrorToHttp(outcome)),
                << Call("delete_person", path[1]) >>)

\* person_router.rs 90-196: the match on (method, path), arms in order
PersonRouter(path, query_params, method, token, body, outcome) ==
    IF method = "POST" /\ IsEmptyPath(path) THEN PersonCreate(token, body, outcome)
    ELSE IF method = "GET" /\ IsEmptyPath(path)
    THEN PersonList(query_params, token, outcome)
    ELSE IF method = "GET" THEN PersonGetById(path, token, outcome)
    ELSE IF method = "DELETE" THEN PersonDelete(path, token, outcome)
    ELSE Routed(Err(NOT_FOUND_ERROR), << >>)

\* speech_router.rs 187-203, with TryFrom<CreateSpeechInput> (74-109)
SpeechCreate(token, body, outcome) ==
    IF ~HasPermission(token, "CreateSpeech") THEN Routed(Err(ACCESS_DENIED_ERROR), << >>)
    ELSE IF ~IsCreateSpeechInput(body)
    THEN Routed(Err(HttpError(400, "InvalidFormat",
             "The body format is invalid. Please refer to the documentation")), << >>)
    ELSE IF body = "speech_bad_sentence_speaker"
    THEN Routed(Err(HttpError(400, "InvalidUID",
             "A speaker uid have an invalid format")), << >>)
    ELSE IF body = "speech_bad_date"
    THEN Routed(Err(HttpError(400, "InvalidDate",
             "The date provided is invalid. Please be sure to provide an ISO 8601 date.")),
             << >>)
    ELSE IF body = "speech_bad_speakers"
    THEN Routed(Err(HttpError(400, "InvalidSpeakersUid",
             "One of the speaker uid provided have an invalid format")), << >>)
    ELSE Routed(IF outcome = "ok" THEN Ok("null") ELSE Err(SpeechErrorToHttp(outcome)),
                << Call("create_speech", body) >>)

\* speech_router.rs 204-257
SpeechList(query_params, token, outcome) ==
    IF ~HasPermission(token, "GetSpeech") THEN Routed(Err(ACCESS_DENIED_ERROR), << >>)
    ELSE LET page_raw == ParamOr(query_params, "page", "0")
             quantity_raw == ParamOr(query_params, "quantity", "10")
             speakers_raw == ExtractArrayInQuery("speakers", query_params)
         IN
    IF ~speakers_raw.ok
    THEN Routed(Err(HttpError(400, "InvalidArrayParam",
             "The array query parameter given is an invalid format.")), << >>)
    ELSE IF ~ParsesU16(page_raw)
    THEN Routed(Err(HttpError(400, "InvalidPageParam",
             "The page parameter provided must be an integer > 0")), << >>)
    ELSE IF ~ParsesU16(quantity_raw)
    THEN Routed(Err(HttpError(400, "InvalidQuantityParam",
             "The quantity parameter provided must be an integer > 0")), << >>)
    ELSE IF \E i \in 1..Len(speakers_raw.list) : speakers_raw.list[i] \notin Uuids
    THEN Routed(Err(HttpError(400, "InvalidUid",
             "The uid provided seems invalid, please check it again")), << >>)
    ELSE Routed(IF outcome = "ok" THEN Ok("speeches") ELSE Err(SpeechErrorToHttp(outcome)),
                << Call("get_speech",
                        << U16Of(page_raw), U16Of(quantity_raw), speakers_raw.list >>) >>)

SpeechGetByIdListsToo(path, token, outcome) ==
    IF ~HasPermission(token, "GetSpeech") THEN Routed(Err(ACCESS_DENIED_ERROR), << >>)
    ELSE IF ~UuidParses(path)
    THEN Routed(Err(HttpError(400, "InvalidUid",
             "The uid provided seems invalid, please check it again")), << >>)
    ELSE Routed(IF outcome = "ok" THEN Ok("speech") ELSE Err(SpeechErrorToHttp(outcome)),
                << Call("get_speech_by_id", path[1]),
                   Call("get_speech", << 0, 10, << >> >>) >>)

\* speech_router.rs 258-277
SpeechGetById(path, token, outcome) ==
    IF ~HasPermission(token, "GetSpeech") THEN Routed(Err(ACCESS_DENIED_ERROR), << >>)
    ELSE IF ~UuidParses(path)
    THEN Routed(Err(HttpError(400, "InvalidUid",
             "The uid provided seems invalid, please check it again")), << >>)
    ELSE Routed(IF outcome = "ok" THEN Ok("speech") ELSE Err(SpeechErrorToHttp(outcome)),
                << Call("get_speech_by_id", path[1]) >>)

\* speech_router.rs 278-291
SpeechDelete(path, token, outcome) ==
    IF ~HasPermission(token, "DeleteSpeech") THEN Routed(Err(ACCESS_DENIED_ERROR), << >>)
    ELSE IF ~UuidParses(path)
    THEN Routed(Err(HttpError(400, "InvalidUid",
             "The uid provided seems invalid, please check it again")), << >>)
    ELSE Routed(IF outcome = "ok" THEN Ok("null") ELSE Err(SpeechErrorToHttp(outcome)),
                << Call("delete_speech", path[1]) >>)

\* speech_router.rs 178-294
SpeechRouter(path, query_params, method, token, body, outcome) ==
    IF method = "POST" /\ IsEmptyPath(path) THEN SpeechCreate(token, body, outcome)
    ELSE IF method = "GET" /\ IsEmptyPath(path)
    THEN SpeechList(query_params, token, outcome)
    ELSE IF method = "GET" THEN SpeechGetById(path, token, outcome)
    ELSE IF method = "DELETE" THEN SpeechDelete(path, token, outcome)
    ELSE Routed(Err(NOT_FOUND_ERROR), << >>)

----------------------------------------------------------------------------
(* SpecKeys: concurrent callers of get_keycloak_keys *)

CallKeys(t) ==
    /\ pc[t] \in {"idle", "keys_done"}
    /\ EnterGetKeys(t)
    /\ UNCHANGED <<now, mutex>>
    /\ UNCHANGED <<jwks, env_url, cache_init, cache>>
    /\ UNCHANGED reqVars

InitKeys ==
    /\ now = 0
    /\ jwks \in JwksDocs
    /\ env_url \in BOOLEAN
    /\ cache_init = FALSE
    /\ cache = InitialCache(0)
    /\ mutex = NoTask
    /\ pc = [t \in 1..NumCallers |-> "idle"]
    /\ keys_ret = [t \in 1..NumCallers |-> NoRet]
    /\ did_fetch = [t \in 1..NumCallers |-> FALSE]
    /\ in_batch = [t \in 1..NumCallers |-> FALSE]
    /\ req = [t \in 1..NumCallers |-> NoRequest]
    /\ token_ret = [t \in 1..NumCallers |-> NoToken]
    /\ calls = [t \in 1..NumCallers |-> << >>]
    /\ resp = [t \in 1..NumCallers |-> NoResponse]
    /\ store = EmptyStore
    /\ params_ret = [t \in DOMAIN pc |-> EmptyParams]
    /\ local_path = [t \in DOMAIN pc |-> << >>]
    /\ db = EmptyDb /\ repo_ret = NoCall /\ given = {} /\ gone = {} /\ pending = {}

NextKeys ==
    \/ \E t \in Tasks : CallKeys(t)
    \/ \E t \in Tasks : KeysAcquire(t)
    \/ \E t \in Tasks : FetchReturn(t)
    \/ \E t \in Tasks : DropCall(t)
    \/ Tick
    \/ Rotate(JwksDocs)

SpecKeys == InitKeys /\ [][NextKeys]_vars

\* SpecKeysLive: the steps the program takes by itself are taken.  A task
\* waiting for the mutex gets it when it is free again and again (the tokio
\* Mutex is fair).  The answer of the endpoint, the drop of a call, the
\* clock and the next call are steps of the environment: the code has no
\* step of its own that ends the wait for the endpoint.
SpecKeysLive ==
    SpecKeys /\ \A t \in 1..NumCallers : SF_vars(KeysAcquire(t))

\* A task gets the mutex in this step
Acquires(t) == pc[t] = "lock" /\ pc'[t] \in {"fetching", "keys_done"}

\* A task's get_keycloak_keys call returns in this step
Returns(t) == pc[t] \in {"lock", "fetching"} /\ pc'[t] = "keys_done"

\* C2: a get_keycloak_keys call that finds the entry younger than the TTL
\* returns the cached key set and hits the endpoint not, whichever task calls
\* and whatever the others do; the entry stays as it is.
C2_FreshEntryServedFromCache ==
    [][\A t \in Tasks :
          (Acquires(t) /\ cache_init /\ now - cache.last_fetched < 3600)
          => /\ pc'[t] = "keys_done"
             /\ keys_ret'[t] = KeysOk(cache.keys)
             /\ did_fetch'[t] = FALSE
             /\ cache' = cache]_vars

\* C2 witness: two callers were served the fetched key set from the cache
C2_Witness ==
    \E t1, t2 \in Tasks :
        /\ t1 # t2
        /\ \A t \in {t1, t2} :
             /\ pc[t] = "keys_done" /\ keys_ret[t].ok /\ ~did_fetch[t]
             /\ keys_ret[t].keys = cache.keys
        /\ cache.keys # EmptyKeys
        /\ now - cache.last_fetched = 1800

\* C3: when all callers called at one instant with the entry expired and all
\* were served, one of them hit the endpoint and all hold the refreshed keys.
C3_SingleFlight ==
    (\A t \in Tasks : pc[t] = "keys_done" /\ in_batch[t] /\ keys_ret[t].ok)
    => /\ Cardinality({t \in Tasks : did_fetch[t]}) = 1
       /\ \A t \in Tasks : keys_ret[t].keys = cache.keys

\* C3 witness: such a batch, over an entry that had been fetched before and
\* expired
C3_Witness ==
    /\ \A t \in Tasks : pc[t] = "keys_done" /\ in_batch[t] /\ keys_ret[t].ok
    /\ Cardinality(Tasks) >= 3
    /\ now = 3600
    /\ cache.keys # EmptyKeys

\* C4: at most one fetch of the key document is in flight.
C4_OneFetchInFlight ==
    Cardinality({t \in Tasks : pc[t] = "fetching"}) <= 1

\* C4 witness: one task fetches while the others wait for the mutex, after
\* a fetch that failed
C4_Witness ==
    \E t1 \in Tasks :
        /\ pc[t1] = "fetching"
        /\ \E t2 \in Tasks \ {t1} : pc[t2] = "lock"
        /\ \E t3 \in Tasks \ {t1} : pc[t3] = "keys_done" /\ did_fetch[t3] /\ ~keys_ret[t3].ok

\* C5: a call that returns an error leaves keys and last_fetched as the call
\* found them, and a call that finds the entry expired (the URL being set)
\* goes to the endpoint, whatever happened before.
C5_FailedRefreshKeepsEntry ==
    [][\A t \in Tasks :
          /\ (Returns(t) /\ ~keys_ret'[t].ok)
             => /\ cache'.keys = CacheAt(now).keys
                /\ cache'.last_fetched = CacheAt(now).last_fetched
          /\ (Acquires(t) /\ env_url /\ now - CacheAt(now).last_fetched >= 3600)
             => pc'[t] = "fetching" /\ did_fetch'[t]
          /\ (Acquires(t) /\ ~env_url /\ now - CacheAt(now).last_fetched >= 3600)
             => pc'[t] = "keys_done" /\ ~keys_ret'[t].ok
          /\ (pc[t] = "fetching" /\ Returns(t) /\ ~BuildKeys(jwks, EmptyKeys).ok)
             => ~keys_ret'[t].ok]_vars

\* C5 witness: after a refresh that failed over a fetched and expired entry,
\* the entry is as before and another call is at the endpoint
C5_Witness ==
    \E t1, t2 \in Tasks :
        /\ pc[t1] = "keys_done" /\ did_fetch[t1] /\ ~keys_ret[t1].ok
        /\ pc[t2] = "fetching"
        /\ cache.keys # EmptyKeys
        /\ cache.last_fetched = 0
        /\ now = 3600

----------------------------------------------------------------------------
(* SpecToken: extract_token applied to every header, token and key set *)

\* Permission lists of a token: none, one string (known or not), all known
\* ones, all known ones and an unknown one
TokenPermSets ==
    {{}} \cup {{s} : s \in PermStrings} \cup {Permissions, PermStrings}

Tokens ==
    {Jwt(kid, alg, sig, expired, aud, perms) :
        kid \in Kids \cup {"absent"}, alg \in Algs, sig \in Signers,
        expired \in BOOLEAN, aud \in Audiences, perms \in TokenPermSets}

RECURSIVE SeqsUpTo(_, _)
\* the sequences over S of length at most n
SeqsUpTo(S, n) ==
    IF n = 0 THEN {<< >>}
    ELSE LET shorter == SeqsUpTo(S, n - 1) IN
         shorter \cup {Append(q, x) : q \in shorter, x \in S}

HeaderValues == SeqsUpTo(HeaderPieces, MaxHeaderLen)

ApplyExtractToken(t) ==
    /\ pc[t] = "verify"
    /\ token_ret' = [token_ret EXCEPT ![t] =
                        ExtractToken(RawToken(req[t].auth), req[t].tok, keys_ret[t].keys)]
    /\ pc' = [pc EXCEPT ![t] = "verified"]
    /\ UNCHANGED <<now, keys_ret, did_fetch, in_batch, req, calls, resp, store,
                   params_ret, local_path, repoVars>>
    /\ UNCHANGED keyVars

InitToken ==
    /\ now = 0
    /\ env_url = TRUE
    /\ cache_init = TRUE
    /\ mutex = NoTask
    /\ pc = [t \in {1} |-> "verify"]
    /\ \E d \in {x \in JwksDocs : Refresh(x).ok} :
         LET ks == Refresh(d).keys IN
         /\ jwks = d
         /\ cache = [keys |-> ks, last_fetched |-> 0]
         /\ keys_ret = [t \in {1} |-> KeysOk(ks)]
    /\ did_fetch = [t \in {1} |-> FALSE]
    /\ in_batch = [t \in {1} |-> FALSE]
    /\ \E v \in HeaderValues, tok \in Tokens :
         req = [t \in {1} |->
                   [NoRequest EXCEPT !.auth = AuthHeader("text", v), !.tok = tok]]
    /\ token_ret = [t \in {1} |-> NoToken]
    /\ calls = [t \in {1} |-> << >>]
    /\ resp = [t \in {1} |-> NoResponse]
    /\ store = EmptyStore
    /\ params_ret = [t \in DOMAIN pc |-> EmptyParams]
    /\ local_path = [t \in DOMAIN pc |-> << >>]
    /\ db = EmptyDb /\ repo_ret = NoCall /\ given = {} /\ gone = {} /\ pending = {}

NextToken == \E t \in Tasks : ApplyExtractToken(t)

SpecToken == InitToken /\ [][NextToken]_vars

----------------------------------------------------------------------------
(* route_requests, router.rs 153-242.  Spec follows the requests served one
   after the other; a part of a request enters the state when route_requests
   reads it.  A panic ends the task of the connection without a response
   ("panicked"); the next request then comes on a new connection. *)

\* uri.path().split("/").skip(1) of the request targets of the model:
\* one without `/` (the authority of a CONNECT, or `*`), `/`, `/x/person`,
\* `/api`, `/api/unknown/x` and, for both services,
\* `/api/s`, `/api/s/`, `/api/s/u1`, `/api/s/zz`, `/api/s/u1/b`
ServicesAndUnknown == {"person", "speech", "unknown"}
Services == {"person", "speech"}
Paths ==
    { << >>, << "" >>, << "x", "person" >>, << "api" >>, << "api", "unknown", "x" >> }
    \cup { << "api", svc >> : svc \in Services }
    \cup { << "api", svc, seg >> : svc \in Services, seg \in {"", "u1", "zz"} }
    \cup { << "api", svc, "u1", "b" >> : svc \in Services }

\* Authorization headers of the pipeline: none, one that is no text, and
\* text values with and without a token, one of them with text before
\* `Bearer`
PipelineTokens ==
    { Jwt("k1", "RS256", "nA", FALSE, ExpectedAudience, perms) :
        perms \in {{}, Permissions, PermStrings} }
    \cup { Jwt("k1", "RS256", "nA", TRUE, ExpectedAudience, Permissions),
           Jwt("k1", "RS256", "nB", FALSE, ExpectedAudience, Permissions) }
PipelineAuth ==
    { [auth |-> AuthHeader(kind, << >>), tok |-> NoJwt] :
        kind \in {"absent", "opaque", "text"} }
    \cup { [auth |-> AuthHeader("text", << "x" >>), tok |-> NoJwt] }
    \cup { [auth |-> AuthHeader("text", << BEARER, "JWT" >>), tok |-> tok] :
            tok \in PipelineTokens }
    \cup { [auth |-> AuthHeader("text", << "x", BEARER, "JWT" >>),
            tok |-> Jwt("k1", "RS256", "nA", FALSE, ExpectedAudience, Permissions)] }

\* Query strings: none, `page=2&quantity=bad&`, `page=1&quantity=2`,
\* `page=x`, `speakers=%5Bu1%5D`, `speakers=u1`, `page=65535`
RawQueries ==
    { << << "" >> >>,
      << << "page", "65535" >> >>,
      << << "page", "2" >>, << "quantity", "bad" >>, << "" >> >>,
      << << "page", "1" >>, << "quantity", "2" >> >>,
      << << "page", "x" >> >>,
      << << "speakers", "%5Bu1%5D" >> >>,
      << << "speakers", "u1" >> >> }

\* The query string matters to the list operations alone and the body to the
\* create operations alone: elsewhere they stay unread.
QueriesRead(method, partial_path) ==
    IF method = "GET" /\ IsEmptyPath(partial_path) THEN RawQueries ELSE {<< >>}
BodiesRead(method, partial_path) ==
    IF method = "POST" /\ IsEmptyPath(partial_path) THEN Bodies ELSE {"unread"}

ResponseOfAlways200(result) ==
    IF result.ok THEN [status |-> 200, value |-> result.value, error |-> NoError]
    ELSE [status |-> 200, value |-> "none", error |-> result.error]

\* router.rs 71-85 and 238-241: the response of a result
ResponseOf(result) ==
    IF result.ok THEN [status |-> 200, value |-> result.value, error |-> NoError]
    ELSE [status |-> result.error.code, value |-> "none", error |-> result.error]

INVALID_ROUTE == HttpError(400, "InvalidRoute", "The route format seems invalid")

\* router.rs 166-173: request.collect().await delivers the body or fails
BodyTransfers == {"ok", "fails"}

RouteRequestsSkipsApiCheck(t) ==
    /\ pc[t] \in {"idle", "responded", "panicked"}
    /\ \E path \in Paths, transfer \in BodyTransfers :
         /\ req' = [req EXCEPT ![t] =
                      [NoRequest EXCEPT !.path = path,
                                        !.body = IF transfer = "fails" THEN "failed"
                                                 ELSE "unread"]]
         /\ IF transfer = "fails"
            THEN /\ resp' = [resp EXCEPT ![t] = ResponseOf(Err(INTERNAL_ERROR))]
                 /\ pc' = [pc EXCEPT ![t] = "responded"]
                 /\ keys_ret' = [keys_ret EXCEPT ![t] = NoRet]
                 /\ UNCHANGED <<did_fetch, in_batch>>
            ELSE IF path = << >>
            THEN /\ resp' = [resp EXCEPT ![t] = ResponseOf(Err(NOT_FOUND_ERROR))]
                 /\ pc' = [pc EXCEPT ![t] = "responded"]
                 /\ keys_ret' = [keys_ret EXCEPT ![t] = NoRet]
                 /\ UNCHANGED <<did_fetch, in_batch>>
            ELSE /\ resp' = [resp EXCEPT ![t] = NoResponse]
                 /\ EnterGetKeys(t)
    /\ token_ret' = [token_ret EXCEPT ![t] = NoToken]
    /\ calls' = [calls EXCEPT ![t] = << >>]
    /\ params_ret' = [params_ret EXCEPT ![t] = EmptyParams]
    /\ local_path' = [local_path EXCEPT ![t] = << >>]
    /\ UNCHANGED repoVars
    /\ UNCHANGED <<now, store>>
    /\ UNCHANGED keyVars

\* Lines 158-190: the request is read, its first segment checked, and
\* get_keycloak_keys called.  The body is collected first (166-173): a
\* transfer that fails is answered 500 before the path is looked at.  What
\* a transfer that succeeds delivered is chosen where the sub-router is
\* called (BodiesRead); until then the body stays "unread".
RouteRequests(t) ==
    /\ pc[t] \in {"idle", "responded", "panicked"}
    /\ \E path \in Paths, transfer \in BodyTransfers :
         /\ req' = [req EXCEPT ![t] =
                      [NoRequest EXCEPT !.path = path,
                                        !.body = IF transfer = "fails" THEN "failed"
                                                 ELSE "unread"]]
         /\ IF transfer = "fails"
            THEN /\ resp' = [resp EXCEPT ![t] = ResponseOf(Err(INTERNAL_ERROR))]
                 /\ pc' = [pc EXCEPT ![t] = "responded"]
                 /\ keys_ret' = [keys_ret EXCEPT ![t] = NoRet]
                 /\ UNCHANGED <<did_fetch, in_batch>>
            ELSE IF path = << >>
            THEN /\ resp' = [resp EXCEPT ![t] = ResponseOf(Err(NOT_FOUND_ERROR))]
                 /\ pc' = [pc EXCEPT ![t] = "responded"]
                 /\ keys_ret' = [keys_ret EXCEPT ![t] = NoRet]
                 /\ UNCHANGED <<did_fetch, in_batch>>
            ELSE IF Head(path) # "api"
            THEN /\ resp' = [resp EXCEPT ![t] = ResponseOf(Err(INVALID_ROUTE))]
                 /\ pc' = [pc EXCEPT ![t] = "responded"]
                 /\ keys_ret' = [keys_ret EXCEPT ![t] = NoRet]
                 /\ UNCHANGED <<did_fetch, in_batch>>
            ELSE /\ resp' = [resp EXCEPT ![t] = NoResponse]
                 /\ EnterGetKeys(t)
    /\ token_ret' = [token_ret EXCEPT ![t] = NoToken]
    /\ calls' = [calls EXCEPT ![t] = << >>]
    /\ params_ret' = [params_ret EXCEPT ![t] = EmptyParams]
    /\ local_path' = [local_path EXCEPT ![t] = << >>]
    /\ UNCHANGED repoVars
    /\ UNCHANGED <<now, store>>
    /\ UNCHANGED keyVars

VerifyDispatchesRejected(t) ==
    /\ pc[t] = "keys_done"
    /\ IF ~keys_ret[t].ok
       THEN /\ resp' = [resp EXCEPT ![t] = ResponseOf(Err(INTERNAL_ERROR))]
            /\ pc' = [pc EXCEPT ![t] = "responded"]
            /\ UNCHANGED <<req, token_ret>>
       ELSE \E a \in PipelineAuth :
            LET token == ExtractToken(RawToken(a.auth), a.tok, keys_ret[t].keys) IN
            /\ req' = [req EXCEPT ![t].auth = a.auth, ![t].tok = a.tok]
            /\ token_ret' = [token_ret EXCEPT ![t] = token]
            /\ pc' = [pc EXCEPT ![t] = "dispatch"]
            /\ UNCHANGED resp
    /\ UNCHANGED <<now, keys_ret, did_fetch, in_batch, calls, store, params_ret,
                   local_path, repoVars>>
    /\ UNCHANGED keyVars

VerifyGoesOnWithoutKeys(t) ==
    /\ pc[t] = "keys_done"
    /\ \E a \in PipelineAuth :
            LET token == ExtractToken(RawToken(a.auth), a.tok,
                                      IF keys_ret[t].ok THEN keys_ret[t].keys
                                      ELSE EmptyKeys) IN
            /\ req' = [req EXCEPT ![t].auth = a.auth, ![t].tok = a.tok]
            /\ token_ret' = [token_ret EXCEPT ![t] = token]
            /\ IF token.ok
               THEN /\ pc' = [pc EXCEPT ![t] = "dispatch"]
                    /\ UNCHANGED resp
               ELSE /\ pc' = [pc EXCEPT ![t] = "responded"]
                    /\ resp' = [resp EXCEPT ![t] = ResponseOf(Err(token.error))]
    /\ UNCHANGED <<now, keys_ret, did_fetch, in_batch, calls, store, params_ret,
                   local_path, repoVars>>
    /\ UNCHANGED keyVars

\* Lines 190-202: the result of get_keycloak_keys is mapped, the
\* Authorization header read and extract_token called.
Verify(t) ==
    /\ pc[t] = "keys_done"
    /\ IF ~keys_ret[t].ok
       THEN /\ resp' = [resp EXCEPT ![t] = ResponseOf(Err(INTERNAL_ERROR))]
            /\ pc' = [pc EXCEPT ![t] = "responded"]
            /\ UNCHANGED <<req, token_ret>>
       ELSE \E a \in PipelineAuth :
            LET token == ExtractToken(RawToken(a.auth), a.tok, keys_ret[t].keys) IN
            /\ req' = [req EXCEPT ![t].auth = a.auth, ![t].tok = a.tok]
            /\ token_ret' = [token_ret EXCEPT ![t] = token]
            /\ IF token.ok
               THEN /\ pc' = [pc EXCEPT ![t] = "dispatch"]
                    /\ UNCHANGED resp
               ELSE /\ pc' = [pc EXCEPT ![t] = "responded"]
                    /\ resp' = [resp EXCEPT ![t] = ResponseOf(Err(token.error))]
    /\ UNCHANGED <<now, keys_ret, did_fetch, in_batch, calls, store, params_ret,
                   local_path, repoVars>>
    /\ UNCHANGED keyVars

DispatchFailsOnBadJson(t) ==
    /\ pc[t] = "dispatch"
    /\ LET splitted_path == Tail(req[t].path) IN
       IF splitted_path = << >> \/ Head(splitted_path) \notin Services
       THEN /\ resp' = [resp EXCEPT ![t] = ResponseOf(Err(NOT_FOUND_ERROR))]
            /\ pc' = [pc EXCEPT ![t] = "responded"]
            /\ UNCHANGED <<req, calls, store, params_ret, local_path, repoVars>>
       ELSE \E method \in Methods,
               outcome \in RepoOutcomes(Head(splitted_path)) \cup {"panic"} :
            \E raw_params \in QueriesRead(method, Join(Tail(splitted_path))),
               raw_body \in BodiesRead(method, Join(Tail(splitted_path))) :
            LET partial_path == Join(Tail(splitted_path))
                parsed == GetQueryParamsFromRaw(raw_params, EmptyParams)
                body == ParseBody(raw_body)
                routed == IF Head(splitted_path) = "person"
                          THEN PersonRouter(partial_path, parsed, method,
                                            token_ret[t], body, outcome)
                          ELSE SpeechRouter(partial_path, parsed, method,
                                            token_ret[t], body, outcome)
            IN /\ \E answer \in ManagerAnswers(store, pending, routed.calls) :
                    /\ answer.outcome = outcome
                    /\ Cardinality((pending \ answer.done) \cup answer.late)
                         <= MaxInFlight
                    /\ store' = answer.store
                    /\ pending' = (pending \ answer.done) \cup answer.late
               /\ req' = [req EXCEPT ![t].method = method, ![t].query = raw_params,
                                     ![t].body = raw_body]
               /\ params_ret' = [params_ret EXCEPT ![t] = parsed]
               /\ local_path' = [local_path EXCEPT ![t] = partial_path]
               /\ UNCHANGED <<db, repo_ret, given, gone>>
               /\ calls' = [calls EXCEPT ![t] = Returned(routed.calls, outcome)]
               /\ resp' = [resp EXCEPT ![t] =
                             IF outcome = "panic" THEN NoResponse
                             ELSE IF raw_body \in {"", "not_json"}
                             THEN ResponseOf(Err(INTERNAL_ERROR))
                             ELSE ResponseOf(routed.result)]
               /\ pc' = [pc EXCEPT ![t] =
                           IF outcome = "panic" THEN "panicked" ELSE "responded"]
    /\ UNCHANGED <<now, keys_ret, did_fetch, in_batch, token_ret>>
    /\ UNCHANGED keyVars

\* Lines 203-241: the service segment selects the sub-router, which gets the
\* rest of the path, the query parameters, the method, the token and the body.
Dispatch(t) ==
    /\ pc[t] = "dispatch"
    /\ LET splitted_path == Tail(req[t].path) IN
       IF splitted_path = << >> \/ Head(splitted_path) \notin Services
       THEN /\ resp' = [resp EXCEPT ![t] = ResponseOf(Err(NOT_FOUND_ERROR))]
            /\ pc' = [pc EXCEPT ![t] = "responded"]
            /\ UNCHANGED <<req, calls, store, params_ret, local_path, repoVars>>
       ELSE \E method \in Methods,
               outcome \in RepoOutcomes(Head(splitted_path)) \cup {"panic"} :
            \E raw_params \in QueriesRead(method, Join(Tail(splitted_path))),
               raw_body \in BodiesRead(method, Join(Tail(splitted_path))) :
            LET partial_path == Join(Tail(splitted_path))
                parsed == GetQueryParamsFromRaw(raw_params, EmptyParams)
                body == ParseBody(raw_body)
                routed == IF Head(splitted_path) = "person"
                          THEN PersonRouter(partial_path, parsed, method,
                                            token_ret[t], body, outcome)
                          ELSE SpeechRouter(partial_path, parsed, method,
                                            token_ret[t], body, outcome)
            IN /\ \E answer \in ManagerAnswers(store, pending, routed.calls) :
                    /\ answer.outcome = outcome
                    /\ Cardinality((pending \ answer.done) \cup answer.late)
                         <= MaxInFlight
                    /\ store' = answer.store
                    /\ pending' = (pending \ answer.done) \cup answer.late
               /\ req' = [req EXCEPT ![t].method = method, ![t].query = raw_params,
                                     ![t].body = raw_body]
               /\ params_ret' = [params_ret EXCEPT ![t] = parsed]
               /\ local_path' = [local_path EXCEPT ![t] = partial_path]
               /\ UNCHANGED <<db, repo_ret, given, gone>>
               /\ calls' = [calls EXCEPT ![t] = Returned(routed.calls, outcome)]
               /\ resp' = [resp EXCEPT ![t] =
                             IF outcome = "panic" THEN NoResponse
                             ELSE ResponseOf(routed.result)]
               /\ pc' = [pc EXCEPT ![t] =
                           IF outcome = "panic" THEN "panicked" ELSE "responded"]
    /\ UNCHANGED <<now, keys_ret, did_fetch, in_batch, token_ret>>
    /\ UNCHANGED keyVars

\* The database server carries out a statement, or a COMMIT, whose caller
\* has returned; a DELETE of delete_person that waits for a COMMIT in flight
\* is carried out after it
ServerCompletes ==
    /\ \E call \in pending :
         /\ ~(call.op = "delete_person"
                /\ WaitsForStore(store, pending \ {call}, call))
         /\ store' = Completed(store, call)
         /\ pending' = pending \ {call}
    /\ UNCHANGED <<now, pc, keys_ret, did_fetch, in_batch, req, token_ret, calls,
                   resp, params_ret, local_path, db, repo_ret, given, gone>>
    /\ UNCHANGED keyVars

\* The documents the endpoint serves to the pipeline: the plain RSA key and
\* the rotated key set
PipelineDocs ==
    { << KeycloakKey("k1", "RSA", "nA") >>,
      << KeycloakKey("k2", "RSA", "nB"), KeycloakKey("k1", "EC", "nA") >> }

Init ==
    /\ now = 0
    /\ jwks \in PipelineDocs
    /\ env_url = TRUE
    /\ cache_init = FALSE
    /\ cache = InitialCache(0)
    /\ mutex = NoTask
    /\ pc = [t \in {1} |-> "idle"]
    /\ keys_ret = [t \in {1} |-> NoRet]
    /\ did_fetch = [t \in {1} |-> FALSE]
    /\ in_batch = [t \in {1} |-> FALSE]
    /\ req = [t \in {1} |-> NoRequest]
    /\ token_ret = [t \in {1} |-> NoToken]
    /\ calls = [t \in {1} |-> << >>]
    /\ resp = [t \in {1} |-> NoResponse]
    /\ store = EmptyStore
    /\ params_ret = [t \in DOMAIN pc |-> EmptyParams]
    /\ local_path = [t \in DOMAIN pc |-> << >>]
    /\ db = EmptyDb /\ repo_ret = NoCall /\ given = {} /\ gone = {} /\ pending = {}

Next ==
    \/ \E t \in Tasks : RouteRequests(t)
    \/ \E t \in Tasks : KeysAcquire(t)
    \/ \E t \in Tasks : FetchReturn(t)
    \/ \E t \in Tasks : Verify(t)
    \/ \E t \in Tasks : Dispatch(t)
    \/ ServerCompletes
    \/ Tick
    \/ Rotate(PipelineDocs)

Spec == Init /\ [][Next]_vars

----------------------------------------------------------------------------
(* SpecRouter: the dispatch applied to every path and every Principal *)

\* The calls whose statement the server may be left with, the store being
\* st: the INSERT of a create_person, the DELETE of a delete_person, the
\* COMMIT of a delete_speech, and the COMMIT of a create_speech, whose
\* inserts have succeeded
InFlightCalls(st) ==
    {Call("create_person", "person"), Call("delete_person", "u1"),
     Call("delete_speech", "u1")}
    \cup (IF RepositoryAnswer(st, Call("create_speech", "speech")).outcome = "ok"
          THEN {Call("create_speech", "speech")} ELSE {})

InitRouter ==
    /\ now = 0
    /\ jwks = << >>
    /\ env_url = TRUE
    /\ cache_init = TRUE
    /\ cache = [keys |-> EmptyKeys, last_fetched |-> 0]
    /\ mutex = NoTask
    /\ pc = [t \in {1} |-> "dispatch"]
    /\ keys_ret = [t \in {1} |-> KeysOk(EmptyKeys)]
    /\ did_fetch = [t \in {1} |-> FALSE]
    /\ in_batch = [t \in {1} |-> FALSE]
    /\ \E path \in {p \in Paths : p # << >> /\ Head(p) = "api"} :
         req = [t \in {1} |-> [NoRequest EXCEPT !.path = path]]
    /\ \E user \in {"none", "u1"}, permissions \in SUBSET Permissions :
         token_ret = [t \in {1} |-> TokenOk(user, permissions)]
    /\ calls = [t \in {1} |-> << >>]
    /\ resp = [t \in {1} |-> NoResponse]
    /\ \E st \in Stores :
         /\ store = st
         /\ pending \in {{}} \cup {{c} : c \in InFlightCalls(st)}
    /\ params_ret = [t \in DOMAIN pc |-> EmptyParams]
    /\ local_path = [t \in DOMAIN pc |-> << >>]
    /\ db = EmptyDb /\ repo_ret = NoCall /\ given = {} /\ gone = {}

NextRouter ==
    \/ \E t \in Tasks : Dispatch(t)
    \/ ServerCompletes

SpecRouter == InitRouter /\ [][NextRouter]_vars

----------------------------------------------------------------------------
(* SpecQuery: get_query_params_from_raw applied to query strings *)

\* The texts between the `=` and `&` of the query strings
QueryFields == {"", "page", "2"}
\* query_param.split("=") yields at least one field, raw_params.split("&")
\* at least one segment
QuerySegments == SeqsUpTo(QueryFields, MaxFields) \ {<< >>}
QueryStrings == SeqsUpTo(QuerySegments, MaxSegments) \ {<< >>}

ParseQuery(t) ==
    /\ pc[t] = "parse"
    /\ params_ret' = [params_ret EXCEPT ![t] =
                         GetQueryParamsFromRaw(req[t].query, EmptyParams)]
    /\ pc' = [pc EXCEPT ![t] = "parsed"]
    /\ UNCHANGED <<now, keys_ret, did_fetch, in_batch, req, token_ret, calls, resp,
                   store, local_path, repoVars>>
    /\ UNCHANGED keyVars

InitQuery ==
    /\ now = 0
    /\ jwks = << >>
    /\ env_url = TRUE
    /\ cache_init = FALSE
    /\ cache = InitialCache(0)
    /\ mutex = NoTask
    /\ pc = [t \in {1} |-> "parse"]
    /\ keys_ret = [t \in {1} |-> NoRet]
    /\ did_fetch = [t \in {1} |-> FALSE]
    /\ in_batch = [t \in {1} |-> FALSE]
    /\ \E raw_params \in QueryStrings :
         req = [t \in {1} |-> [NoRequest EXCEPT !.query = raw_params]]
    /\ token_ret = [t \in {1} |-> NoToken]
    /\ calls = [t \in {1} |-> << >>]
    /\ resp = [t \in {1} |-> NoResponse]
    /\ store = EmptyStore
    /\ params_ret = [t \in {1} |-> EmptyParams]
    /\ local_path = [t \in {1} |-> << >>]
    /\ db = EmptyDb /\ repo_ret = NoCall /\ given = {} /\ gone = {} /\ pending = {}

NextQuery == \E t \in Tasks : ParseQuery(t)

SpecQuery == InitQuery /\ [][NextQuery]_vars

RECURSIVE JoinEq(_)
\* The text of fields put together with `=` again, as the sequence of its
\* pieces
JoinEq(fields) ==
    IF Len(fields) = 1 THEN << fields[1] >>
    ELSE << fields[1], "=" >> \o JoinEq(Tail(fields))

RECURSIVE SplitAtFirstEq(_, _)
\* The map from the text before the first `=` of each segment that has one
\* to all the text after it; a later segment replaces an earlier one
SplitAtFirstEq(raw_params, acc) ==
    IF raw_params = << >> THEN acc
    ELSE LET fields == Head(raw_params) IN
         IF Len(fields) >= 2
         THEN SplitAtFirstEq(Tail(raw_params),
                             Insert(acc, fields[1], JoinEq(Tail(fields))))
         ELSE SplitAtFirstEq(Tail(raw_params), acc)

\* C15: get_query_params_from_raw maps the text before the first `=` of each
\* `&`-separated segment to all the text after that `=`, and drops the
\* segments that have no `=`.
C15_SplitsAtFirstEq ==
    \A t \in Tasks :
        pc[t] = "parsed"
        => LET expected == SplitAtFirstEq(req[t].query, [k \in {} |-> << >>]) IN
           /\ DOMAIN params_ret[t] = DOMAIN expected
           /\ \A k \in DOMAIN expected : << params_ret[t][k] >> = expected[k]

----------------------------------------------------------------------------
(* Claims on the sub-routers (SpecRouter) *)

\* The Authorization text of the request of task t, and whether a text holds
\* the token
Presented(t) == RawToken(req[t].auth)
HoldsJwt(raw) == \E i \in 1..Len(raw) : raw[i] = "JWT"

\* The operation a sub-router maps a method and local path to
OperationOf(method, partial_path) ==
    CASE method = "POST" /\ IsEmptyPath(partial_path) -> "create"
      [] method = "GET" /\ IsEmptyPath(partial_path) -> "list"
      [] method = "GET" /\ ~IsEmptyPath(partial_path) -> "get_by_id"
      [] method = "DELETE" /\ ~IsEmptyPath(partial_path) -> "delete"
      [] OTHER -> "none"

\* The permission an operation of a service requires
RequiredPermission(service, operation) ==
    CASE service = "person" /\ operation = "create" -> "CreatePerson"
      [] service = "person" /\ operation \in {"list", "get_by_id"} -> "GetPerson"
      [] service = "person" /\ operation = "delete" -> "DeletePerson"
      [] service = "speech" /\ operation = "create" -> "CreateSpeech"
      [] service = "speech" /\ operation \in {"list", "get_by_id"} -> "GetSpeech"
      [] service = "speech" /\ operation = "delete" -> "DeleteSpeech"

\* The request of task t was answered by an operation of a sub-router
Served(t) ==
    /\ pc[t] = "responded"
    /\ token_ret[t].ok
    /\ Len(req[t].path) >= 2
    /\ req[t].path[2] \in Services
    /\ OperationOf(req[t].method, SubSeq(req[t].path, 3, Len(req[t].path))) # "none"

ServedOperation(t) ==
    OperationOf(req[t].method, SubSeq(req[t].path, 3, Len(req[t].path)))

\* C1: an operation asked by a Principal that lacks the permission it
\* requires is answered 403 AccessDenied and makes no manager call.
C1_PermissionEnforced ==
    \A t \in Tasks :
        (Served(t) /\ RequiredPermission(req[t].path[2], ServedOperation(t))
                         \notin token_ret[t].permissions)
        => /\ resp[t] = [status |-> 403, value |-> "none",
                         error |-> [code |-> 403, error |-> "AccessDenied",
                                    details |-> "You cannot access to this ressource"]]
           /\ calls[t] = << >>

\* C1 witness: a Principal holding every permission but DeletePerson asked
\* for the deletion of a person with a valid uuid and got 403, no call made
C1_Witness ==
    \E t \in Tasks :
        /\ Served(t)
        /\ req[t].path = << "api", "person", "u1" >>
        /\ req[t].method = "DELETE"
        /\ token_ret[t].permissions = Permissions \ {"DeletePerson"}
        /\ resp[t].status = 403
        /\ calls[t] = << >>

\* The request of task t was answered by a sub-router
SubRouted(t) ==
    /\ pc[t] = "responded"
    /\ token_ret[t].ok
    /\ Len(req[t].path) >= 2
    /\ req[t].path[2] \in {"person", "speech"}

\* C13: a method and local path outside the four mapped operations (POST
\* and GET on the empty path, GET and DELETE on an id path) is answered 404
\* NotFound by both sub-routers, with no manager call.
C13_UnmappedIsNotFound ==
    \A t \in Tasks :
        (SubRouted(t) /\ ServedOperation(t) = "none")
        => /\ resp[t].status = 404 /\ resp[t].error.error = "NotFound"
           /\ calls[t] = << >>

\* In this step the sub-router of task t calls its manager for the entity
\* `uid`, which the store does not hold, and the database answers
AddressesAbsent(t, ops) ==
    /\ pc[t] = "dispatch" /\ pc'[t] = "responded"
    /\ calls'[t] # << >>
    /\ calls'[t][1].op \in ops
    /\ calls'[t][1].arg \notin
          (IF calls'[t][1].op \in PersonCalls THEN store.person ELSE store.speech)
    /\ calls'[t][1].returned \notin InternalErrors

\* C14: a get-by-id or a delete that an authorized Principal addresses to a
\* well-formed uuid the store does not hold is answered 404 with a not-found
\* error.
C14_AbsentEntityIsNotFound ==
    [][\A t \in Tasks :
          AddressesAbsent(t, {"get_person_by_id", "get_speech_by_id",
                              "delete_person", "delete_speech"})
          => /\ resp'[t].status = 404
             /\ resp'[t].error.error \in {"PersonNotFound", "SpeechNotFound"}]_vars

\* The query string `page=2&quantity=bad&`
PageTwoQuantityBad == << << "page", "2" >>, << "quantity", "bad" >>, << "" >> >>

\* C16: a list request with the query string `page=2&quantity=bad&`, by a
\* Principal holding the read permission of the service, has `page` parsed
\* as "2" and the empty segment dropped, and is answered 400
\* InvalidQuantityParam with no manager call.
C16_BadQuantityReported ==
    \A t \in Tasks :
        (/\ SubRouted(t)
         /\ ServedOperation(t) = "list"
         /\ req[t].query = PageTwoQuantityBad
         /\ HasPermission(token_ret[t],
                          IF req[t].path[2] = "person" THEN "GetPerson"
                          ELSE "GetSpeech"))
        => /\ DOMAIN params_ret[t] = {"page", "quantity"}
           /\ params_ret[t]["page"] = "2"
           /\ params_ret[t]["quantity"] = "bad"
           /\ resp[t].status = 400
           /\ resp[t].error.error = "InvalidQuantityParam"
           /\ calls[t] = << >>

\* C16 witness: such a request for the speeches was answered 400
\* InvalidQuantityParam
C16_Witness ==
    \E t \in Tasks :
        /\ pc[t] = "responded"
        /\ req[t].path = << "api", "speech" >>
        /\ req[t].method = "GET"
        /\ req[t].query = PageTwoQuantityBad
        /\ "GetSpeech" \in token_ret[t].permissions
        /\ resp[t].status = 400
        /\ resp[t].error.error = "InvalidQuantityParam"

\* The status and tag of the error of a kind, for a service
KindStatus(kind) ==
    CASE kind = "ok" -> 200
      [] kind \in {"not_found", "person_not_found"} -> 404
      [] kind = "already_exists" -> 409
      [] kind \in InternalErrors -> 500
KindTag(service, kind) ==
    CASE kind = "ok" -> ""
      [] kind = "not_found" ->
           IF service = "person" THEN "PersonNotFound" ELSE "SpeechNotFound"
      [] kind = "person_not_found" -> "PersonNotFound"
      [] kind = "already_exists" ->
           IF service = "person" THEN "PersonAlreadyExists" ELSE "SpeechAlreadyExists"
      [] kind \in InternalErrors -> "InternalError"

\* C19: when a sub-router calls its manager, the response is the one of the
\* kind of what the repository returned for the rows it holds (or of an
\* internal error, when the database fails or its answer does not arrive,
\* the rows being then as they were or as the call leaves them; or of the
\* person error of a deletion that a COMMIT in flight crossed, the rows being
\* then as the COMMIT leaves them): success 200, not-found 404,
\* already-exists 409, internal 500, and a person error inside a speech
\* error as the person error.
C19_RepositoryErrorsByKind ==
    [][\A t \in Tasks :
          (pc[t] = "dispatch" /\ pc'[t] = "responded" /\ calls'[t] # << >>)
          => LET call == calls'[t][1]
                 service == req[t].path[2]
                 answer == IF call.op \in PersonCalls
                           THEN PersonRepository(store, call)
                           ELSE SpeechRepository(store, call)
             IN \E a \in {answer}
                         \cup {Answer(e, st) : e \in InternalErrors,
                                               st \in {store, answer.store}}
                         \cup {Answer("person_not_found", Completed(store, c)) :
                                 c \in pending} :
                   /\ call.returned = a.outcome
                   /\ store' = a.store
                   /\ resp'[t].status = KindStatus(a.outcome)
                   /\ resp'[t].error.code = (IF a.outcome = "ok" THEN 0
                                             ELSE KindStatus(a.outcome))
                   /\ resp'[t].error.error = KindTag(service, a.outcome)]_vars

\* C19 witness: the creation of a speech whose speaker is not in the store
\* was answered 404 with the person's not-found error
C19_Witness ==
    \E t \in Tasks :
        /\ pc[t] = "responded"
        /\ calls[t] # << >>
        /\ calls[t][1].op = "create_speech"
        /\ store.person = {}
        /\ resp[t].status = 404
        /\ resp[t].error.error = "PersonNotFound"

----------------------------------------------------------------------------
(* Claims on route_requests (Spec) *)

\* C7: a request without Authorization header, or with an empty one, whose
\* token was extracted got the Principal with the permissions GetPerson and
\* GetSpeech and no identity, whatever its path, its method and the key set.
C7_AnonymousDefault ==
    \A t \in Tasks :
        ( /\ pc[t] \in {"dispatch", "responded"}
          /\ \/ req[t].auth.kind = "absent"
             \/ req[t].auth.kind = "text" /\ req[t].auth.value = << >> )
        => /\ token_ret[t].ok
           /\ token_ret[t].permissions = {"GetPerson", "GetSpeech"}
           /\ token_ret[t].user = "none"

\* C7 witness: an anonymous POST on /api/speech, verified against a key set
\* that is not empty, was served as the default Principal (and so refused)
C7_Witness ==
    \E t \in Tasks :
        /\ pc[t] = "responded"
        /\ req[t].auth.kind = "absent"
        /\ req[t].path = << "api", "speech" >>
        /\ req[t].method = "POST"
        /\ keys_ret[t].ok /\ keys_ret[t].keys # EmptyKeys
        /\ token_ret[t].permissions = {"GetPerson", "GetSpeech"}
        /\ resp[t].status = 403

\* Task t runs extract_token in this step
Verifies(t) == pc[t] = "keys_done" /\ pc'[t] # "keys_done" /\ keys_ret[t].ok

\* C9: verifying a token whose kid the key set lacks fails with InvalidToken;
\* a verification step leaves the cache, its mutex and the endpoint alone;
\* the cache changes in steps of get_keycloak_keys alone, which a request
\* enters once, when it starts.
C9_VerifierLeavesCacheAlone ==
    [][\A t \in Tasks :
          /\ (Verifies(t) /\ HoldsJwt(RawToken(req'[t].auth))
                /\ req'[t].tok.kid \notin DOMAIN keys_ret[t].keys)
             => /\ token_ret'[t] = TokenErr(HttpError(400, "InvalidToken",
                                           "The token you provided is invalid"))
                /\ resp'[t].status = 400
          /\ Verifies(t)
             => /\ cache' = cache /\ cache_init' = cache_init /\ mutex' = mutex
                /\ did_fetch' = did_fetch /\ pc'[t] \notin {"lock", "fetching"}
          /\ (cache' # cache) => \E u \in Tasks : Returns(u) \/ Acquires(u)
          /\ (pc'[t] = "lock" /\ pc[t] # "lock")
             => pc[t] \in {"idle", "responded", "panicked"}]_vars

\* C9 witness: a request presenting `Bearer <token>` with kid k1 against a
\* fetched key set without k1 was answered 400, the cache being as fetched
C9_Witness ==
    \E t \in Tasks :
        /\ pc[t] = "responded"
        /\ req[t].auth.value = << BEARER, "JWT" >>
        /\ req[t].tok.kid = "k1"
        /\ keys_ret[t].ok /\ DOMAIN keys_ret[t].keys = {"k2"}
        /\ resp[t].status = 400 /\ resp[t].error.error = "InvalidToken"
        /\ cache.keys = keys_ret[t].keys
        /\ did_fetch[t]

\* C11 as stated: a request whose path does not begin with the segment `api`
\* is answered 400 InvalidRoute.
C11_NonApiPathIsInvalidRoute ==
    \A t \in Tasks :
        (pc[t] = "responded" /\ (req[t].path = << >> \/ Head(req[t].path) # "api"))
        => resp[t].status = 400 /\ resp[t].error.error = "InvalidRoute"

\* C11 amended: of the requests route_requests is given, one whose body was
\* delivered and whose path has a first segment (the text after its first
\* `/`) other than `api` is answered 400 InvalidRoute before its method and
\* headers and the content of its body are looked at and before any key is
\* asked for; one whose body could not be read is answered 500 InternalError
\* whatever its path, with no key asked for; one whose body was delivered and
\* whose target holds no `/` (the authority of a CONNECT, or `*`) is
\* answered 404 NotFound, with no key asked for, and 400 InvalidRoute is the
\* answer to no other request.
C11_NonApiSegmentIsInvalidRoute ==
    \A t \in Tasks :
        pc[t] = "responded"
        => /\ (req[t].body # "failed" /\ req[t].path # << >>
                /\ Head(req[t].path) # "api")
              => /\ resp[t] = [status |-> 400, value |-> "none",
                               error |-> HttpError(400, "InvalidRoute",
                                            "The route format seems invalid")]
                 /\ req[t].method = "unread" /\ req[t].auth.kind = "unread"
                 /\ req[t].body = "unread"
                 /\ keys_ret[t] = NoRet /\ token_ret[t] = NoToken
                 /\ calls[t] = << >>
           /\ (req[t].body # "failed" /\ req[t].path = << >>)
              => /\ resp[t] = [status |-> 404, value |-> "none",
                               error |-> HttpError(404, "NotFound",
                                            "The requested resource is not found")]
                 /\ req[t].method = "unread" /\ req[t].auth.kind = "unread"
                 /\ req[t].body = "unread"
                 /\ keys_ret[t] = NoRet /\ token_ret[t] = NoToken
                 /\ calls[t] = << >>
           /\ req[t].body = "failed"
              => /\ resp[t] = ResponseOf(Err(INTERNAL_ERROR))
                 /\ resp[t].status = 500
                 /\ keys_ret[t] = NoRet /\ token_ret[t] = NoToken
                 /\ calls[t] = << >>
           /\ (resp[t].status = 400 /\ resp[t].error.error = "InvalidRoute")
              => /\ req[t].path # << >> /\ Head(req[t].path) # "api"
                 /\ req[t].body # "failed"

\* C11 witness: the request for `/x/person`, its body delivered, was
\* answered 400 InvalidRoute, with no key asked for
C11_Witness ==
    \E t \in Tasks :
        /\ pc[t] = "responded"
        /\ req[t].path = << "x", "person" >> /\ req[t].body = "unread"
        /\ resp[t].status = 400 /\ resp[t].error.error = "InvalidRoute"
        /\ keys_ret[t] = NoRet

\* The path of the request of task t begins with `api` and goes on with no
\* segment or with one that names no service
NamesNoService(t) ==
    /\ req[t].path # << >> /\ Head(req[t].path) = "api"
    /\ Len(req[t].path) >= 2 => req[t].path[2] \notin {"person", "speech"}

\* C12 as stated: a request for `/api` or `/api/<segment>/..` with a segment
\* other than `person` and `speech` is answered 404 NotFound.
C12_UnknownServiceAlwaysNotFound ==
    \A t \in Tasks :
        (pc[t] = "responded" /\ NamesNoService(t))
        => resp[t].status = 404 /\ resp[t].error.error = "NotFound"

\* C12 amended: a request for `/api` or `/api/<segment>/..` with a segment
\* other than `person` and `speech` reaches no sub-router and no manager,
\* whatever its method, query and body; it is answered 500 InternalError when
\* its body could not be read or the key set could not be had, 400 with the
\* error of extract_token when its Authorization header is rejected, and 404
\* NotFound in every other case, that is once its Principal is established.
C12_UnknownServiceIsNotFound ==
    \A t \in Tasks :
        (pc[t] = "responded" /\ NamesNoService(t))
        => /\ calls[t] = << >>
           /\ req[t].method = "unread"
           /\ resp[t] =
                IF req[t].body = "failed" \/ ~keys_ret[t].ok
                THEN [status |-> 500, value |-> "none",
                      error |-> HttpError(500, "InternalError",
                        "An internal error occured, please contact our technical service")]
                ELSE IF ~token_ret[t].ok
                THEN [status |-> 400, value |-> "none", error |-> token_ret[t].error]
                ELSE [status |-> 404, value |-> "none",
                      error |-> HttpError(404, "NotFound",
                                   "The requested resource is not found")]
           /\ ~token_ret[t].ok
              => (req[t].body = "failed" \/ ~keys_ret[t].ok
                  \/ token_ret[t].error.code = 400)

\* C12 witness: `/api/unknown/x` without Authorization header was answered
\* 404, and so was `/api`
C12_Witness ==
    \E t \in Tasks :
        /\ pc[t] = "responded"
        /\ req[t].path = << "api", "unknown", "x" >>
        /\ req[t].auth.kind = "absent"
        /\ resp[t].status = 404 /\ resp[t].error.error = "NotFound"

\* C17: a request whose body is empty or is no JSON goes through
\* authentication and dispatch; the sub-router gets JSON null, which a create
\* operation answers 400 InvalidFormat (403 when the Principal may not
\* create), and the dispatcher itself raises no error for it.
C17_BadJsonBodyIsNull ==
    \A t \in Tasks :
        (pc[t] = "responded" /\ req[t].body \in {"", "not_json"})
        => /\ keys_ret[t].ok /\ token_ret[t].ok
           /\ req[t].path[2] \in {"person", "speech"}
           /\ calls[t] = << >>
           /\ resp[t] = ResponseOf(
                 IF (IF req[t].path[2] = "person" THEN "CreatePerson"
                     ELSE "CreateSpeech") \in token_ret[t].permissions
                 THEN Err(HttpError(400, "InvalidFormat",
                        "The body format is invalid. Please refer to the documentation"))
                 ELSE Err(HttpError(403, "AccessDenied",
                        "You cannot access to this ressource")))

\* C17 witness: a POST of an empty body to `/api/person` by a Principal that
\* may create persons was answered 400 InvalidFormat
C17_Witness ==
    \E t \in Tasks :
        /\ pc[t] = "responded"
        /\ req[t].path = << "api", "person" >>
        /\ req[t].method = "POST"
        /\ req[t].body = ""
        /\ "CreatePerson" \in token_ret[t].permissions
        /\ resp[t].status = 400 /\ resp[t].error.error = "InvalidFormat"

\* The JSON value an operation of a service returns
ValueOf(service, operation) ==
    CASE operation \in {"create", "delete"} -> "null"
      [] operation = "list" -> IF service = "person" THEN "people" ELSE "speeches"
      [] operation = "get_by_id" -> service

\* C18: a response has status 200 exactly when it carries the JSON value a
\* sub-router returned (null for create and delete); any other response
\* carries an HttpError and has the status that error's code names.
C18_StatusMatchesResult ==
    \A t \in Tasks :
        pc[t] = "responded"
        => /\ resp[t].status = 200 <=> resp[t].error = NoError
           /\ resp[t].status = 200
              => /\ SubRouted(t) /\ ServedOperation(t) # "none"
                 /\ resp[t].value = ValueOf(req[t].path[2], ServedOperation(t))
           /\ resp[t].status # 200
              => /\ resp[t].value = "none"
                 /\ resp[t].status = resp[t].error.code
                 /\ resp[t].error.code \in {400, 403, 404, 409, 500}
                 /\ resp[t].error.error # "" /\ resp[t].error.details # ""

\* C18 witness: a second creation of the person was answered 409 with the
\* PersonAlreadyExists error
C18_Witness ==
    \E t \in Tasks :
        /\ pc[t] = "responded"
        /\ req[t].method = "POST"
        /\ calls[t] # << >>
        /\ resp[t].status = 409
        /\ resp[t].error = HttpError(409, "PersonAlreadyExists",
                                     "The person you try to create already exists.")

\* C20: a request during which get_keycloak_keys failed is answered 500
\* InternalError; its Authorization header is not read, no token is
\* verified and no sub-router or manager runs for it.
C20_KeyFailureIsInternalError ==
    \A t \in Tasks :
        (pc[t] = "responded" /\ keys_ret[t] = KeysErr)
        => /\ resp[t] = [status |-> 500, value |-> "none",
                         error |-> HttpError(500, "InternalError",
                            "An internal error occured, please contact our technical service")]
           /\ req[t].auth.kind = "unread" /\ token_ret[t] = NoToken
           /\ req[t].method = "unread" /\ calls[t] = << >>

\* C20 witness: a request for `/api/person` whose key fetch failed was
\* answered 500
C20_Witness ==
    \E t \in Tasks :
        /\ pc[t] = "responded"
        /\ req[t].path = << "api", "person" >>
        /\ did_fetch[t] /\ ~keys_ret[t].ok
        /\ resp[t].status = 500 /\ resp[t].error.error = "InternalError"

----------------------------------------------------------------------------
(* Claims on extract_token (SpecToken) *)

\* C6: a token presented (a) without the `Bearer ` prefix, (b) with a kid that
\* is not in the key set, (c) with another algorithm than RS256, (d) expired
\* or (e) with a wrong audience is answered by the one InvalidToken error.
C6_UniformRejection ==
    \A t \in Tasks :
        pc[t] = "verified" =>
        LET raw == Presented(t)
            tok == req[t].tok
        IN ( \/ raw # << >> /\ raw[1] # BEARER
             \/ /\ HoldsJwt(raw)
                /\ \/ tok.kid \notin DOMAIN keys_ret[t].keys
                   \/ tok.alg # "RS256"
                   \/ tok.expired
                   \/ tok.aud # "speech-analytics-front-end" )
           => token_ret[t] = TokenErr(HttpError(400, "InvalidToken",
                                     "The token you provided is invalid"))

\* C8: a value that is not empty and does not start with `Bearer ` is
\* rejected, and the token verified is all the text after that prefix: only
\* `Bearer ` followed by one valid token is accepted.
C8_BearerPrefixRequired ==
    \A t \in Tasks :
        pc[t] = "verified" =>
        LET raw == Presented(t) IN
        /\ (raw # << >> /\ raw[1] # BEARER) => ~token_ret[t].ok
        /\ (raw # << >> /\ token_ret[t].ok) => raw = << BEARER, "JWT" >>

\* C10: a token whose permission list holds a string outside the closed set
\* is rejected with InvalidToken; a Principal made from a token carries the
\* token's permissions, all of the closed set.
C10_UnknownPermissionRejected ==
    \A t \in Tasks :
        pc[t] = "verified" =>
        LET raw == Presented(t)
            tok == req[t].tok
        IN /\ (HoldsJwt(raw) /\ \E p \in tok.perms : p \notin Permissions)
              => token_ret[t] = TokenErr(HttpError(400, "InvalidToken",
                                        "The token you provided is invalid"))
           /\ (raw # << >> /\ token_ret[t].ok)
              => token_ret[t].permissions = tok.perms /\ tok.perms \subseteq Permissions

\* C10 witness: `Bearer <token>` with a token that verifies in every other
\* respect, carries all permissions and an unknown one, and is rejected
C10_Witness ==
    \E t \in Tasks :
        LET tok == req[t].tok
            keys == keys_ret[t].keys
        IN /\ pc[t] = "verified"
           /\ Presented(t) = << BEARER, "JWT" >>
           /\ tok.kid \in DOMAIN keys
           /\ keys[tok.kid] = tok.sig
           /\ tok.alg = "RS256" /\ ~tok.expired /\ tok.aud = ExpectedAudience
           /\ tok.perms = Permissions \cup {"Admin"}
           /\ ~token_ret[t].ok

----------------------------------------------------------------------------
(* Claims on the whole handling of a request *)

\* C21: every request ends in a well-formed HTTP response, status 200 or
\* the status of an HttpError; no path panics or aborts the handling task.
C21_EveryRequestIsAnswered ==
    \A t \in Tasks :
        /\ pc[t] # "panicked"
        /\ pc[t] = "responded" => resp[t].status \in {200, 400, 403, 404, 409, 500}

----------------------------------------------------------------------------
(* Claims on get_keycloak_keys: liveness, the mutex, the refresh *)

\* C22: the fetch is bounded by a timeout: a get_keycloak_keys call that
\* waits for the endpoint eventually returns (an error when the endpoint
\* never answers), so the mutex is eventually released and every caller
\* waiting for it eventually gets a result.
C22_FetchIsBounded ==
    \A t \in 1..NumCallers :
        /\ (pc[t] = "fetching") ~> (pc[t] \in {"keys_done", "idle"})
        /\ (pc[t] = "lock") ~> (pc[t] \in {"keys_done", "idle"})
        /\ (mutex = t) ~> (mutex = NoTask)

\* C23: every exit of get_keycloak_keys releases the cache mutex: the mutex
\* is held only by a task that is waiting for the endpoint, and it is free
\* whenever no call is in progress.
C23_MutexReleasedOnEveryExit ==
    /\ mutex # NoTask => pc[mutex] = "fetching"
    /\ (\A t \in Tasks : pc[t] \notin {"lock", "fetching"}) => mutex = NoTask

\* C23 witness: one call was dropped while it waited for the endpoint, one
\* refresh failed, and a later caller holds the mutex
C23_Witness ==
    \E t1, t2, t3 \in Tasks :
        /\ pc[t1] = "idle" /\ did_fetch[t1]
        /\ pc[t2] = "keys_done" /\ did_fetch[t2] /\ ~keys_ret[t2].ok
        /\ pc[t3] = "fetching" /\ mutex = t3

\* The kids of the RSA entries of a document
RsaKids(doc) == {doc[i].kid : i \in {j \in DOMAIN doc : doc[j].kty = "RSA"}}
\* The document has an entry that is no RSA key, and its RSA entries are
\* well-formed
HasSkippableEntry(doc) ==
    /\ \E i \in DOMAIN doc : doc[i].kty # "RSA"
    /\ \A i \in DOMAIN doc : doc[i].kty = "RSA" => doc[i].n \in {"nA", "nB"}

\* C24: an entry of the key document whose key type is not RSA is skipped
\* without error: when the endpoint answers a waiting call with such a
\* document, the refresh succeeds and the key set holds exactly the kids of
\* the RSA entries.
C24_NonRsaEntrySkipped ==
    \A t \in Tasks :
        (pc[t] = "fetching" /\ HasSkippableEntry(jwks))
        => /\ Refresh(jwks).ok
           /\ DOMAIN Refresh(jwks).keys = RsaKids(jwks)

\* C25: a successful refresh replaces the entry wholesale and atomically:
\* the call returns the key set built from the document alone, the entry
\* holds that set and the time of the refresh, and the entry changes in no
\* other way, keys and timestamp always changing together in one step.
C25_RefreshReplacesEntry ==
    [][/\ \A t \in Tasks :
            (pc[t] = "fetching" /\ Returns(t) /\ keys_ret'[t].ok)
            => /\ keys_ret'[t].keys = BuildKeys(jwks, EmptyKeys).keys
               /\ DOMAIN keys_ret'[t].keys = RsaKids(jwks)
               /\ cache' = [keys |-> keys_ret'[t].keys, last_fetched |-> now]
       /\ (cache_init /\ cache' # cache)
          => /\ \E t \in Tasks :
                  pc[t] = "fetching" /\ Returns(t) /\ keys_ret'[t].ok
             /\ cache' = [keys |-> BuildKeys(jwks, EmptyKeys).keys,
                          last_fetched |-> now]]_vars

\* C25 witness: a refresh at 3600 replaced an entry that held k1 (a caller
\* still holds that set) by one that holds k2 alone
C25_Witness ==
    \E t1, t2 \in Tasks :
        /\ pc[t1] = "keys_done" /\ did_fetch[t1] /\ keys_ret[t1].ok
        /\ DOMAIN keys_ret[t1].keys = {"k2"}
        /\ cache = [keys |-> keys_ret[t1].keys, last_fetched |-> 3600]
        /\ pc[t2] = "keys_done" /\ keys_ret[t2].ok
        /\ "k1" \in DOMAIN keys_ret[t2].keys

\* The instants of the model's clock
Instants == {k * TickSecs : k \in 0..(MaxTime \div TickSecs)}

\* C26: the cache starts empty and expired: the first call to get the mutex
\* goes on to the remote fetch (it fails before the request when the URL is
\* not set) and is not served from the cache, and a call is served from the
\* cache only when the entry is not the initial one.
C26_InitialEntryNeverServed ==
    [][\A t \in Tasks :
          /\ (Acquires(t) /\ ~cache_init)
             => /\ cache' = [keys |-> EmptyKeys, last_fetched |-> now - 3600]
                /\ IF env_url THEN pc'[t] = "fetching" /\ did_fetch'[t]
                   ELSE pc'[t] = "keys_done" /\ ~keys_ret'[t].ok
          /\ (Acquires(t) /\ keys_ret'[t].ok)
             => /\ cache_init
                /\ \A t0 \in Instants :
                      t0 <= now => cache # [keys |-> EmptyKeys,
                                            last_fetched |-> t0 - 3600]]_vars

\* C26 witness: the first call, made at 1800, failed at the endpoint and left
\* the initial entry; the next call is at the endpoint again
C26_Witness ==
    \E t1, t2 \in Tasks :
        /\ cache_init
        /\ cache = [keys |-> EmptyKeys, last_fetched |-> 1800 - 3600]
        /\ pc[t1] = "keys_done" /\ did_fetch[t1] /\ ~keys_ret[t1].ok
        /\ pc[t2] = "fetching"

----------------------------------------------------------------------------
(* Claims on the sub-routers and on the dispatch, continued *)

\* C27: the response to a request whose manager call raised an internal
\* storage error is the fixed 500 InternalError with its generic details,
\* whatever the text of the storage error: two requests that differ in that
\* text alone get the same response, and the text is in neither.
C27_InternalTextNotDisclosed ==
    [][\A t \in Tasks :
          (pc[t] = "dispatch" /\ pc'[t] = "responded" /\ calls'[t] # << >>
             /\ calls'[t][1].returned \in InternalErrors)
          => resp'[t] =
               [status |-> 500, value |-> "none",
                error |-> [code |-> 500, error |-> "InternalError",
                           details |-> "An internal error occured, please contact our technical service"]]]_vars

\* C27 witness: the deletion of a person a speech refers to raised the
\* database's foreign key error and was answered 500
C27_Witness ==
    \E t \in Tasks :
        /\ pc[t] = "responded"
        /\ calls[t] # << >>
        /\ calls[t][1].op = "delete_person"
        /\ calls[t][1].returned = FOREIGN_KEY
        /\ store.speech # {}
        /\ resp[t].status = 500

\* C28: the local path handed to the selected sub-router is the text of the
\* segments after the service segment, joined by `/`: empty for `/api/s` and
\* for `/api/s/`, `a` for `/api/s/a`, `a/b` for `/api/s/a/b`.
C28_LocalPathIsRest ==
    [][\A t \in Tasks :
          (pc[t] = "dispatch" /\ pc'[t] # "dispatch"
             /\ Len(req[t].path) >= 2 /\ req[t].path[2] \in Services)
          => LET rest == SubSeq(req[t].path, 3, Len(req[t].path)) IN
             /\ Len(rest) <= 2
             /\ (rest = << >> \/ rest = << "" >>) => local_path'[t] = << >>
             /\ (Len(rest) = 1 /\ rest # << "" >>) => local_path'[t] = rest
             /\ Len(rest) = 2 => local_path'[t] = << rest[1], "/", rest[2] >>]_vars

\* C28 witness: `/api/speech/u1/b` was handed over as `u1/b`, which names no
\* operation of the sub-router for POST
C28_Witness ==
    \E t \in Tasks :
        /\ pc[t] = "responded"
        /\ req[t].path = << "api", "speech", "u1", "b" >>
        /\ req[t].method = "POST"
        /\ local_path[t] = << "u1", "/", "b" >>
        /\ resp[t].status = 404

\* C29: `GET /api/person/<uuid>` by a Principal that holds GetPerson makes
\* one manager call, get_person_by_id with that uuid, and no other; likewise
\* `GET /api/speech/<uuid>` with GetSpeech and get_speech_by_id.
C29_GetByIdCallsOnce ==
    [][\A t \in Tasks :
          (pc[t] = "dispatch" /\ pc'[t] # "dispatch"
             /\ req'[t].method = "GET"
             /\ Len(req[t].path) = 3
             /\ req[t].path[2] \in Services
             /\ req[t].path[3] \in Uuids
             /\ (IF req[t].path[2] = "person" THEN "GetPerson" ELSE "GetSpeech")
                   \in token_ret[t].permissions)
          => /\ Len(calls'[t]) = 1
             /\ calls'[t][1].op = (IF req[t].path[2] = "person"
                                   THEN "get_person_by_id" ELSE "get_speech_by_id")
             /\ calls'[t][1].arg = req[t].path[3]]_vars

\* C29 witness: a Principal holding GetSpeech alone asked for the speech u1,
\* which the store holds: one get_speech_by_id call was made, and the answer
\* was its internal error
C29_Witness ==
    \E t \in Tasks :
        /\ pc[t] = "responded"
        /\ req[t].method = "GET"
        /\ req[t].path = << "api", "speech", "u1" >>
        /\ token_ret[t].permissions = {"GetSpeech"}
        /\ "u1" \in store.speech
        /\ Len(calls[t]) = 1 /\ calls[t][1].op = "get_speech_by_id"
        /\ calls[t][1].arg = "u1" /\ calls[t][1].returned = UNDEFINED_COLUMN
        /\ resp[t].status = 500

----------------------------------------------------------------------------
(* The repositories over the tables of the database (SpecPerson, SpecSpeech).
   A text is the sequence of its characters; a u64 is the sequence of its
   four 16-bit limbs, the most significant first. *)

\* postgres_repository.rs 62-63: name CHAR(50), first_name CHAR(50)
CharWidth == 50
\* 2^16 and 2^15: the values of a limb, and its sign bit
LimbModulus == 65536
LimbSign == 32768

Spaces(n) == [i \in 1..n |-> " "]

RECURSIVE TrimEnd(_)
TrimEnd(s) ==
    IF s = << >> THEN s
    ELSE IF s[Len(s)] = " " THEN TrimEnd(SubSeq(s, 1, Len(s) - 1))
    ELSE s

RECURSIVE TrimStart(_)
TrimStart(s) ==
    IF s = << >> THEN s
    ELSE IF Head(s) = " " THEN TrimStart(Tail(s))
    ELSE s

\* str::trim (postgres_repository.rs 41-42)
Trim(s) == TrimStart(TrimEnd(s))

\* The assignment of a text to a CHAR(50) column: trailing spaces beyond the
\* width are cut, anything else beyond the width is an error, and a shorter
\* text is padded with spaces
FitsChar(s) == Len(TrimEnd(s)) <= CharWidth
ToChar(s) == TrimEnd(s) \o Spaces(CharWidth - Len(TrimEnd(s)))

\* person.lie_quantity() as i32 (postgres_repository.rs 105): the low 32 bits
U64AsI32(q) == << q[3], q[4] >>
\* An int4 stored in a BIGINT column: the sign is extended
I32ToBigint(w) ==
    LET sign == IF w[1] >= LimbSign THEN LimbModulus - 1 ELSE 0
    IN << sign, sign, w[1], w[2] >>
\* lie_quantity as u64 (postgres_repository.rs 45): the same 64 bits
I64AsU64(b) == b
\* trust_score as u8 (postgres_repository.rs 44)
I16AsU8(x) == x % 256

\* domain/person/person.rs: Person::new
PersonOf(uid, name, first_name, birth_date, trust_score, lie_quantity) ==
    [uid |-> uid, name |-> name, first_name |-> first_name,
     birth_date |-> birth_date, trust_score |-> trust_score,
     lie_quantity |-> lie_quantity]

\* postgres_repository.rs 98-106: the row the INSERT of create_person writes
PersonRow(p) ==
    [uid |-> p.uid, name |-> ToChar(p.name), first_name |-> ToChar(p.first_name),
     birth_date |-> p.birth_date, trust_score |-> p.trust_score,
     lie_quantity |-> I32ToBigint(U64AsI32(p.lie_quantity))]

\* postgres_repository.rs 27-48: impl TryFrom<PgRow> for Person
PersonOfRow(row) ==
    PersonOf(row.uid, Trim(row.name), Trim(row.first_name), row.birth_date,
             I16AsU8(row.trust_score), I64AsU64(row.lie_quantity))

\* postgres_repository.rs 60-68: PRIMARY KEY (uid) and unique_identity
ViolatesUnique(tbl, row) ==
    \E r \in tbl :
        \/ r.uid = row.uid
        \/ /\ r.name = row.name
           /\ r.first_name = row.first_name
           /\ r.birth_date = row.birth_date

\* What a repository method returns, the tables it leaves and the statement
\* it leaves with the server
RepoAnswer(result, value, tables) ==
    [result |-> result, value |-> value, db |-> tables, late |-> {}]
InFlight(result, tables, stmt) ==
    [result |-> result, value |-> "none", db |-> tables, late |-> {stmt}]

VALUE_TOO_LONG == "InternalError(value too long for type character(50))"

NoPerson == PersonOf("none", << >>, << >>, "none", 0, << 0, 0, 0, 0 >>)
\* postgres_repository.rs 96-109: the INSERT of create_person, and 167-173:
\* the DELETE of delete_person
InsertStatement(person) == [op |-> "insert", uid |-> person.uid, person |-> person]
DeleteStatement(uid) == [op |-> "delete", uid |-> uid, person |-> NoPerson]

\* speech_person.speaker and sentence.speaker refer to person(uid)
\* (repository.rs 63-110)
Referred(tables, uid) ==
    \/ \E l \in tables.speech_person : l.speaker = uid
    \/ \E x \in tables.sentence : x.speaker = uid

\* The tables once the server has carried out a statement.  Both statements
\* run outside any transaction (the pool is the executor): the INSERT writes
\* its row unless a name does not fit its column or the row violates the
\* primary key or unique_identity (60-68); the DELETE removes the row unless
\* speech_person.speaker or sentence.speaker refers to it (repository.rs
\* 63-110).
Execute(tables, stmt) ==
    IF stmt.op = "insert"
    THEN IF \/ ~FitsChar(stmt.person.name) \/ ~FitsChar(stmt.person.first_name)
            \/ ViolatesUnique(tables.person, PersonRow(stmt.person))
         THEN tables
         ELSE [tables EXCEPT !.person = @ \cup {PersonRow(stmt.person)}]
    ELSE IF Referred(tables, stmt.uid)
         THEN tables
         ELSE [tables EXCEPT !.person = {r \in @ : r.uid # stmt.uid}]

\* The ways a call fails apart from what the database answers: not at all;
\* "connect": PgPool::connect returns an error; "elapsed": the deadline of
\* the connection passes, or that of the statement before the statement
\* reached the server.  Once the server has received the statement, the
\* deadline may pass ("elapsed_..") or the connection break (".._io", any
\* sqlx::Error that is no database error) before the answer arrives: the
\* method returns the error, and the server, which runs the statement
\* outside any transaction, carries it out all the same, before the method
\* returns ("_sent") or at some time after ("_in_flight").
RepoFailures ==
    {"none", "connect", "elapsed", "elapsed_sent", "io_sent",
     "elapsed_in_flight", "io_in_flight"}
\* A SELECT leaves nothing behind
ReadFailures == {"none", "connect", "elapsed", "elapsed_sent", "io_sent"}

create_person_overwrites(tables, person, failure) ==
    RepoAnswer("ok", "none",
               [tables EXCEPT !.person =
                   {r \in @ : r.uid # person.uid} \cup {PersonRow(person)}])

\* postgres_repository.rs 90-111
create_person(tables, person, failure) ==
    LET stmt == InsertStatement(person) IN
    IF failure = "connect" THEN RepoAnswer(IO_ERROR, "none", tables)
    ELSE IF failure = "elapsed" THEN RepoAnswer(ELAPSED, "none", tables)
    ELSE IF failure = "elapsed_sent"
    THEN RepoAnswer(ELAPSED, "none", Execute(tables, stmt))
    ELSE IF failure = "io_sent"
    THEN RepoAnswer(IO_ERROR, "none", Execute(tables, stmt))
    ELSE IF failure = "elapsed_in_flight" THEN InFlight(ELAPSED, tables, stmt)
    ELSE IF failure = "io_in_flight" THEN InFlight(IO_ERROR, tables, stmt)
    ELSE IF ~FitsChar(person.name) \/ ~FitsChar(person.first_name)
    THEN RepoAnswer(VALUE_TOO_LONG, "none", tables)
    ELSE IF ViolatesUnique(tables.person, PersonRow(person))
    THEN RepoAnswer("already_exists", "none", tables)
    ELSE RepoAnswer("ok", "none", Execute(tables, stmt))

\* postgres_repository.rs 117-131
get_person_by_id(tables, uid, failure) ==
    IF failure \in {"connect", "io_sent"} THEN RepoAnswer(IO_ERROR, "none", tables)
    ELSE IF failure \in {"elapsed", "elapsed_sent"}
    THEN RepoAnswer(ELAPSED, "none", tables)
    ELSE IF \E r \in tables.person : r.uid = uid
    THEN RepoAnswer("ok", PersonOfRow(CHOOSE r \in tables.person : r.uid = uid),
                    tables)
    ELSE RepoAnswer("not_found", "none", tables)

\* postgres_repository.rs 159-175
delete_person(tables, uid, failure) ==
    LET stmt == DeleteStatement(uid) IN
    IF failure = "connect" THEN RepoAnswer(IO_ERROR, "none", tables)
    ELSE IF failure = "elapsed" THEN RepoAnswer(ELAPSED, "none", tables)
    ELSE IF failure = "elapsed_sent"
    THEN RepoAnswer(ELAPSED, "none", Execute(tables, stmt))
    ELSE IF failure = "io_sent"
    THEN RepoAnswer(IO_ERROR, "none", Execute(tables, stmt))
    ELSE IF failure = "elapsed_in_flight" THEN InFlight(ELAPSED, tables, stmt)
    ELSE IF failure = "io_in_flight" THEN InFlight(IO_ERROR, tables, stmt)
    ELSE IF Referred(tables, uid)
    THEN RepoAnswer(FOREIGN_KEY, "none", tables)
    ELSE RepoAnswer("ok", "none", Execute(tables, stmt))

----------------------------------------------------------------------------
(* SpecPerson: the methods of the person repository called one after the
   other over the person table *)

pipelineVars == <<now, pc, keys_ret, did_fetch, in_batch, req, token_ret, calls,
                  resp, store, params_ret, local_path>>

RepoUids == {"u1", "u2"}
\* Names: plain, with a leading space, with a trailing space, and one
\* character longer than the column
PersonNames ==
    { << "A" >>, << " ", "A" >>, << "A", " " >>, [i \in 1..(CharWidth + 1) |-> "A"] }
\* Lie quantities: 0, 2^31 - 1, 2^31 and 2^32
LieQuantities ==
    { << 0, 0, 0, 0 >>, << 0, 0, LimbSign - 1, LimbModulus - 1 >>,
      << 0, 0, LimbSign, 0 >>, << 0, 1, 0, 0 >> }
\* Persons as the router builds them (trust score 0, lie quantity 0, any
\* name), and persons with a trust score and a lie quantity, whose identity
\* is that of the first of the former
Persons ==
    { PersonOf("u1", name, << "B" >>, "2000-01-03", 0, << 0, 0, 0, 0 >>) :
        name \in PersonNames }
    \cup { PersonOf("u2", << "A" >>, << "B" >>, "2000-01-03", 255, lie_quantity) :
             lie_quantity \in LieQuantities }

RepoRet(op, arg, answer) ==
    [op |-> op, arg |-> arg, result |-> answer.result, value |-> answer.value]

\* The statement the server finished, as the last step at the database
ServerRet == [op |-> "server", arg |-> "none", result |-> "none", value |-> "none"]

\* `given` holds the persons a create_person that returned Ok was given and
\* whose row no DELETE removed since; `gone` holds the uids a delete_person
\* that returned Ok was given and that no create_person was called with
\* since.  A call that returns an error may have written or removed the row
\* all the same, or have left its statement with the server.
CallCreatePerson ==
    /\ \E person \in Persons, failure \in RepoFailures :
         LET answer == create_person(db, person, failure) IN
         /\ Cardinality(pending \cup answer.late) <= MaxStatements
         /\ db' = answer.db
         /\ pending' = pending \cup answer.late
         /\ repo_ret' = RepoRet("create_person", person, answer)
         /\ given' = IF answer.result = "ok"
                     THEN {g \in given : g.uid # person.uid} \cup {person}
                     ELSE given
         /\ gone' = gone \ {person.uid}
    /\ UNCHANGED pipelineVars
    /\ UNCHANGED keyVars

CallGetPersonById ==
    /\ \E uid \in RepoUids, failure \in ReadFailures :
         LET answer == get_person_by_id(db, uid, failure) IN
         /\ db' = answer.db
         /\ repo_ret' = RepoRet("get_person_by_id", uid, answer)
    /\ UNCHANGED <<given, gone, pending>>
    /\ UNCHANGED pipelineVars
    /\ UNCHANGED keyVars

CallDeletePerson ==
    /\ \E uid \in RepoUids, failure \in RepoFailures :
         LET answer == delete_person(db, uid, failure) IN
         /\ Cardinality(pending \cup answer.late) <= MaxStatements
         /\ db' = answer.db
         /\ pending' = pending \cup answer.late
         /\ repo_ret' = RepoRet("delete_person", uid, answer)
         /\ given' = IF answer.db # db THEN {g \in given : g.uid # uid} ELSE given
         /\ gone' = IF answer.result = "ok" THEN gone \cup {uid} ELSE gone
    /\ UNCHANGED pipelineVars
    /\ UNCHANGED keyVars

\* The database server carries out a statement whose caller has returned
\* (postgres_repository.rs 96-109, 167-173: the future of the statement is
\* dropped when the deadline passes, the statement is not withdrawn)
ServerExecutes ==
    /\ \E stmt \in pending :
         /\ db' = Execute(db, stmt)
         /\ pending' = pending \ {stmt}
         /\ repo_ret' = ServerRet
         /\ given' = IF stmt.op = "delete" /\ Execute(db, stmt) # db
                     THEN {g \in given : g.uid # stmt.uid} ELSE given
    /\ UNCHANGED gone
    /\ UNCHANGED pipelineVars
    /\ UNCHANGED keyVars

\* Pages and quantities: products below 2^16, 256 * 256 = 2^16 and products
\* beyond
ListPages == {0, 1, 256, 65535}
ListQuantities == {1, 10, 256}

Min(a, b) == IF a <= b THEN a ELSE b

\* postgres_repository.rs 133-157: SELECT .. LIMIT quantity OFFSET
\* (page*quantity) as i32.  The product is one of two u16: beyond 2^16 - 1 it
\* panics when the build checks overflow (as the query is built, after the
\* connection and before anything is sent) and wraps when it does not.  Without
\* ORDER BY the rows returned are any `quantity` of those past the offset;
\* `people` is the choice made.
get_people(tables, page, quantity, failure, overflow_checks, people) ==
    LET call == Call("get_people", << page, quantity >>) IN
    IF failure = "connect" THEN RepoAnswer(IO_ERROR, "none", tables)
    ELSE IF failure = "elapsed" THEN RepoAnswer(ELAPSED, "none", tables)
    ELSE IF Overflows(call) /\ overflow_checks
    THEN RepoAnswer("panic", "none", tables)
    ELSE IF failure = "elapsed_sent" THEN RepoAnswer(ELAPSED, "none", tables)
    ELSE IF failure = "io_sent" THEN RepoAnswer(IO_ERROR, "none", tables)
    ELSE RepoAnswer("ok", [limit |-> quantity, offset |-> WrappedOffset(call),
                           people |-> people], tables)

\* How many rows LIMIT and OFFSET leave of n
RowsLeft(n, limit, offset) == Min(limit, IF offset >= n THEN 0 ELSE n - offset)

CallGetPeople ==
    /\ \E page \in ListPages, quantity \in ListQuantities,
          failure \in ReadFailures, overflow_checks \in BOOLEAN :
         \E people \in SUBSET {PersonOfRow(r) : r \in db.person} :
         LET call == Call("get_people", << page, quantity >>)
             answer == get_people(db, page, quantity, failure, overflow_checks, people)
         IN /\ Cardinality(people)
                 = RowsLeft(Cardinality(db.person), quantity, WrappedOffset(call))
            /\ db' = answer.db
            /\ repo_ret' = RepoRet("get_people", << page, quantity >>, answer)
    /\ UNCHANGED <<given, gone, pending>>
    /\ UNCHANGED pipelineVars
    /\ UNCHANGED keyVars

InitPerson ==
    /\ now = 0
    /\ jwks = << >>
    /\ env_url = TRUE
    /\ cache_init = TRUE
    /\ cache = [keys |-> EmptyKeys, last_fetched |-> 0]
    /\ mutex = NoTask
    /\ pc = [t \in {1} |-> "idle"]
    /\ keys_ret = [t \in {1} |-> NoRet]
    /\ did_fetch = [t \in {1} |-> FALSE]
    /\ in_batch = [t \in {1} |-> FALSE]
    /\ req = [t \in {1} |-> NoRequest]
    /\ token_ret = [t \in {1} |-> NoToken]
    /\ calls = [t \in {1} |-> << >>]
    /\ resp = [t \in {1} |-> NoResponse]
    /\ store = EmptyStore
    /\ params_ret = [t \in {1} |-> EmptyParams]
    /\ local_path = [t \in {1} |-> << >>]
    /\ db = EmptyDb /\ repo_ret = NoCall /\ given = {} /\ gone = {} /\ pending = {}

NextPerson ==
    \/ CallCreatePerson
    \/ CallGetPersonById
    \/ CallDeletePerson
    \/ ServerExecutes

SpecPerson == InitPerson /\ [][NextPerson]_vars

----------------------------------------------------------------------------
(* SpecPeople: get_people called over a person table of no row, of one and
   of two *)

PeopleTables ==
    { {},
      { PersonOf("u1", << "A" >>, << "B" >>, "2000-01-03", 0, << 0, 0, 0, 0 >>) },
      { PersonOf("u1", << " ", "A" >>, << "B" >>, "2000-01-03", 0, << 0, 0, 0, 0 >>),
        PersonOf("u2", << "A" >>, << "B" >>, "2000-01-03", 255, << 0, 0, LimbSign, 0 >>) } }

InitPeople ==
    /\ now = 0
    /\ jwks = << >>
    /\ env_url = TRUE
    /\ cache_init = TRUE
    /\ cache = [keys |-> EmptyKeys, last_fetched |-> 0]
    /\ mutex = NoTask
    /\ pc = [t \in {1} |-> "idle"]
    /\ keys_ret = [t \in {1} |-> NoRet]
    /\ did_fetch = [t \in {1} |-> FALSE]
    /\ in_batch = [t \in {1} |-> FALSE]
    /\ req = [t \in {1} |-> NoRequest]
    /\ token_ret = [t \in {1} |-> NoToken]
    /\ calls = [t \in {1} |-> << >>]
    /\ resp = [t \in {1} |-> NoResponse]
    /\ store = EmptyStore
    /\ params_ret = [t \in {1} |-> EmptyParams]
    /\ local_path = [t \in {1} |-> << >>]
    /\ \E people \in PeopleTables :
         db = [EmptyDb EXCEPT !.person = {PersonRow(p) : p \in people}]
    /\ repo_ret = NoCall /\ given = {} /\ gone = {} /\ pending = {}

NextPeople == CallGetPeople

SpecPeople == InitPeople /\ [][NextPeople]_vars

----------------------------------------------------------------------------
(* Claims on the person repository (SpecPerson) *)

\* The person given to the create_person call whose return is this step is
\* stored already: a row has its uid, or its name, first name and birth date
CreatesStoredPerson ==
    /\ repo_ret'.op = "create_person"
    /\ \E r \in db.person :
          \/ r.uid = repo_ret'.arg.uid
          \/ /\ r.name = ToChar(repo_ret'.arg.name)
             /\ r.first_name = ToChar(repo_ret'.arg.first_name)
             /\ r.birth_date = repo_ret'.arg.birth_date

C31_CreatedPersonReadBack ==
    (repo_ret.op = "get_person_by_id" /\ repo_ret.result \notin InternalErrors)
    => \A g \in given :
          g.uid = repo_ret.arg
          => /\ repo_ret.result = "ok"
             /\ repo_ret.value.name = g.name
             /\ repo_ret.value.first_name = g.first_name
             /\ repo_ret.value.birth_date = g.birth_date
             /\ repo_ret.value.trust_score = g.trust_score
             /\ repo_ret.value.lie_quantity = g.lie_quantity

\* C32: after a delete_person(uid) that returned Ok, and until create_person
\* is called again with a person of that uid (whatever the call returns),
\* get_person_by_id(uid) returns PersonNotFound (when the database answers)
\* and the table holds no row of that uid.
C32_DeletedPersonNotFound ==
    (/\ repo_ret.op = "get_person_by_id"
     /\ repo_ret.arg \in gone
     /\ repo_ret.result \notin InternalErrors)
    => /\ repo_ret.result = "not_found"
       /\ \A r \in db.person : r.uid # repo_ret.arg

----------------------------------------------------------------------------
(* Claims on the order of the steps of a request (Spec) *)

\* The sub-router was invoked for the request of task t
Dispatched(t) == req[t].method # "unread" \/ calls[t] # << >>

\* C33: within one request the key retrieval comes first, then the token
\* verification, then the sub-router: the token is verified only with the
\* key set get_keycloak_keys returned for this request, a sub-router (and
\* any manager call) runs only after extract_token returned a Principal for
\* this request, and a request with an invalid token never reaches a
\* sub-router.
C33_KeysThenTokenThenDispatch ==
    \A t \in Tasks :
        /\ token_ret[t] # NoToken
           => /\ keys_ret[t].ok
              /\ token_ret[t] = ExtractToken(RawToken(req[t].auth), req[t].tok,
                                             keys_ret[t].keys)
        /\ (pc[t] = "dispatch" \/ Dispatched(t))
           => keys_ret[t].ok /\ token_ret[t].ok
        /\ (token_ret[t] # NoToken /\ ~token_ret[t].ok)
           => /\ pc[t] = "responded"
              /\ ~Dispatched(t)
              /\ resp[t] = ResponseOf(Err(INVALID_TOKEN))

\* C33 witness: a request whose keys were fetched during the request, whose
\* Bearer token was verified into a Principal, and for which a manager was
\* called
C33_Witness ==
    \E t \in Tasks :
        /\ pc[t] = "responded"
        /\ did_fetch[t] /\ keys_ret[t].ok
        /\ req[t].auth.value = << BEARER, "JWT" >> /\ token_ret[t].ok
        /\ calls[t] # << >>

----------------------------------------------------------------------------
(* Claims on the order of the checks within a sub-router (SpecRouter) *)

\* The input of the operation served to task t does not pass the validation
\* of its arm: the body of a create, the page, quantity or speakers of a
\* list, the uuid of a get by id or of a delete
InvalidInput(t) ==
    LET service == req[t].path[2]
        operation == ServedOperation(t)
        body == ParseBody(req[t].body)
    IN CASE operation = "create" ->
              IF service = "person" THEN body # "person" ELSE body # "speech"
         [] operation = "list" ->
              \/ ~ParsesU16(ParamOr(params_ret[t], "page", "0"))
              \/ ~ParsesU16(ParamOr(params_ret[t], "quantity", "10"))
              \/ /\ service = "speech"
                 /\ LET speakers_raw == ExtractArrayInQuery("speakers", params_ret[t])
                    IN \/ ~speakers_raw.ok
                       \/ \E i \in 1..Len(speakers_raw.list) :
                              speakers_raw.list[i] \notin Uuids
         [] OTHER -> ~UuidParses(local_path[t])

\* C34: in every mapped operation the permission is checked before the input:
\* a Principal that lacks the permission the operation requires is answered
\* 403 AccessDenied, never a 400, also when the body, the uuid of the path or
\* the pagination parameters are invalid.
C34_PermissionBeforeValidation ==
    \A t \in Tasks :
        (/\ Served(t)
         /\ RequiredPermission(req[t].path[2], ServedOperation(t))
               \notin token_ret[t].permissions
         /\ InvalidInput(t))
        => /\ resp[t].status = 403
           /\ resp[t].error = ACCESS_DENIED_ERROR

\* C34 witness: a Principal without GetPerson asked for the list of persons
\* with `page=x` and got 403
C34_Witness ==
    \E t \in Tasks :
        /\ Served(t)
        /\ req[t].path = << "api", "person" >> /\ req[t].method = "GET"
        /\ req[t].query = << << "page", "x" >> >>
        /\ "GetPerson" \notin token_ret[t].permissions
        /\ InvalidInput(t)
        /\ resp[t].status = 403

----------------------------------------------------------------------------
(* Claims on anonymous requests (Spec) *)

\* C35: a request that carries no Authorization header invokes none of
\* create_person, delete_person, create_speech and delete_speech, and leaves
\* the store as it was.
C35_AnonymousChangesNothing ==
    [][ \A t \in Tasks :
          (pc[t] = "dispatch" /\ pc'[t] # "dispatch" /\ req[t].auth.kind = "absent")
          => /\ store' = store
             /\ \A i \in 1..Len(calls'[t]) : calls'[t][i].op \notin StateChangingCalls
      ]_vars

\* C35 witness: a request without Authorization header asked for the
\* creation of a person with a valid body and was answered 403, no call made
C35_Witness ==
    \E t \in Tasks :
        /\ pc[t] = "responded"
        /\ req[t].auth.kind = "absent"
        /\ req[t].path = << "api", "person" >> /\ req[t].method = "POST"
        /\ req[t].body = "person"
        /\ resp[t].status = 403
        /\ calls[t] = << >>

\* The Authorization header of the request of task t was read and is not
\* empty: a text of one character at least, or bytes that are no text
NonEmptyHeader(t) ==
    \/ req[t].auth.kind = "opaque"
    \/ req[t].auth.kind = "text" /\ req[t].auth.value # << >>

\* C36: a request with a non-empty Authorization header is never served with
\* the anonymous default Principal: its token is verified into the Principal
\* of the token or the request is rejected with InvalidToken, also when the
\* header value cannot be read as text.
C36_NonEmptyHeaderNeverAnonymous ==
    \A t \in Tasks :
        (NonEmptyHeader(t) /\ token_ret[t] # NoToken)
        => \/ token_ret[t] = TokenErr(INVALID_TOKEN)
           \/ /\ HoldsJwt(req[t].auth.value)
              /\ token_ret[t] = TokenOk(req[t].tok.user, req[t].tok.perms)

----------------------------------------------------------------------------
(* Claims on the age of the key sets returned (Spec) *)

\* C37: a key set get_keycloak_keys returns is the one of the entry and was
\* fetched less than the TTL before; a call that finds the entry expired
\* goes to the endpoint and, when the refresh fails, returns an error and not
\* the keys of the entry; a request whose call returned an error is answered
\* 500 whatever its Authorization header.
C37_NoStaleKeySet ==
    [][\A t \in Tasks :
          /\ (Returns(t) /\ keys_ret'[t].ok)
             => /\ keys_ret'[t].keys = cache'.keys
                /\ now - cache'.last_fetched < TTL
          /\ (Returns(t) /\ now - cache'.last_fetched >= TTL)
             => keys_ret'[t] = KeysErr
          /\ (pc[t] = "keys_done" /\ pc'[t] # "keys_done" /\ ~keys_ret[t].ok)
             => /\ pc'[t] = "responded"
                /\ resp'[t] = ResponseOf(Err(INTERNAL_ERROR))
                /\ token_ret'[t] = NoToken]_vars

\* C37 witness: a key set was fetched and expired, the refresh of a request
\* failed, and the request was answered 500 while the entry holds the old keys
C37_Witness ==
    \E t \in Tasks :
        /\ pc[t] = "responded"
        /\ did_fetch[t] /\ keys_ret[t] = KeysErr
        /\ cache.keys # EmptyKeys
        /\ now - cache.last_fetched >= TTL
        /\ resp[t].status = 500

----------------------------------------------------------------------------
(* Claims on the offset of the list operations (SpecPerson) *)

\* C38: for every page and quantity a list operation accepts, the offset
\* passed to the store is the product page * quantity: the multiplication
\* neither overflows, nor wraps, nor panics.
C38_OffsetIsProduct ==
    (repo_ret.op = "get_people" /\ repo_ret.result \notin InternalErrors)
    => /\ repo_ret.result = "ok"
       /\ repo_ret.value.offset = repo_ret.arg[1] * repo_ret.arg[2]

----------------------------------------------------------------------------
(* The speech repository over the tables speech, speech_person and sentence
   (SpecSpeech) *)

\* domain/speech/sentence.rs: Sentence::new
SentenceOf(uid, speaker, text, interrupted) ==
    [uid |-> uid, speaker |-> speaker, text |-> text, interrupted |-> interrupted]

\* domain/speech/speech.rs: Speech::new
SpeechOf(uid, name, date, speakers, sentences, media, speech_status) ==
    [uid |-> uid, name |-> name, date |-> date, speakers |-> speakers,
     sentences |-> sentences, media |-> media, speech_status |-> speech_status]

\* repository.rs 136-143: the row of the INSERT INTO speech
SpeechRow(speech) ==
    [uid |-> speech.uid, name |-> speech.name, date |-> speech.date,
     media |-> speech.media, status |-> speech.speech_status]

\* repository.rs 163-166: the row of an INSERT INTO speech_person
LinkRow(speech, speaker) == [speech_uid |-> speech.uid, speaker |-> speaker]

\* repository.rs 181-191: the row of an INSERT INTO sentence, `idx` counted
\* from 0
SentenceRow(speech, sentence, idx) ==
    [uid |-> sentence.uid, speech_uid |-> speech.uid, speaker |-> sentence.speaker,
     text |-> sentence.text, interrupted |-> sentence.interrupted, index |-> idx]

\* repository.rs 136-204: the statements of create_speech in their order
Statements(speech) ==
    << [table |-> "speech", row |-> SpeechRow(speech)] >>
    \o [i \in 1..Len(speech.speakers) |->
          [table |-> "speech_person", row |-> LinkRow(speech, speech.speakers[i])]]
    \o [j \in 1..Len(speech.sentences) |->
          [table |-> "sentence", row |-> SentenceRow(speech, speech.sentences[j], j - 1)]]

\* repository.rs 63-110 with From<Error> (18-36): what the database answers
\* to an INSERT: a primary key or unique_speech violation is
\* SpeechAlreadyExists, a foreign key violation PersonNotFound
InsertError(tables, stmt) ==
    CASE stmt.table = "speech" ->
           IF \E r \in tables.speech :
                 \/ r.uid = stmt.row.uid
                 \/ /\ r.name = stmt.row.name
                    /\ r.date = stmt.row.date
                    /\ r.media = stmt.row.media
           THEN "already_exists" ELSE "none"
      [] stmt.table = "speech_person" ->
           IF \A r \in tables.speech : r.uid # stmt.row.speech_uid
           THEN "person_not_found"
           ELSE IF \A r \in tables.person : r.uid # stmt.row.speaker
           THEN "person_not_found" ELSE "none"
      [] stmt.table = "sentence" ->
           IF \E r \in tables.sentence : r.uid = stmt.row.uid
           THEN "already_exists"
           ELSE IF \A r \in tables.speech : r.uid # stmt.row.speech_uid
           THEN "person_not_found"
           ELSE IF \A r \in tables.person : r.uid # stmt.row.speaker
           THEN "person_not_found" ELSE "none"

InsertRow(tables, stmt) == [tables EXCEPT ![stmt.table] = @ \cup {stmt.row}]

RollbackKeepsRows(before, tx) == tx

\* tx.rollback(): the tables as they were at connection.begin()
Rollback(before, tx) == before

\* Where a call fails apart from what the database answers: nowhere, at the
\* connection, at begin, by the timeout of its k-th statement, or at commit.
\* tx.commit() (repository.rs 206, 336) is under no timeout and fails
\* either before the server committed ("commit": the transaction is undone),
\* or after it, the answer being lost ("commit_lost": the rows are written
\* or deleted and the method returns the error), or while the server is
\* still to carry out the COMMIT it received ("commit_in_flight": the method
\* returns the error and the rows are written or deleted at some time
\* after).
SpeechFailures(n) ==
    { [kind |-> kind, at |-> 0] :
        kind \in {"none", "connect", "begin", "commit", "commit_lost",
                  "commit_in_flight"} }
    \cup { [kind |-> "elapsed", at |-> k] : k \in 1..n }

\* The rows a transaction adds and removes, and the tables once it is
\* committed
Transaction(before, tx) ==
    [added |-> [tbl \in DOMAIN before |-> tx[tbl] \ before[tbl]],
     removed |-> [tbl \in DOMAIN before |-> before[tbl] \ tx[tbl]]]
Commit(tables, t) ==
    [tbl \in DOMAIN tables |-> (tables[tbl] \ t.removed[tbl]) \cup t.added[tbl]]

\* tx.commit() of a transaction that ran to its end
CommitOf(before, tx, failure) ==
    IF failure.kind = "commit" THEN RepoAnswer(IO_ERROR, "none", before)
    ELSE IF failure.kind = "commit_lost" THEN RepoAnswer(IO_ERROR, "none", tx)
    ELSE IF failure.kind = "commit_in_flight" /\ tx # before
    THEN InFlight(IO_ERROR, before, Transaction(before, tx))
    ELSE IF failure.kind = "commit_in_flight"
    THEN RepoAnswer(IO_ERROR, "none", before)
    ELSE RepoAnswer("ok", "none", tx)

\* repository.rs 144-207: the statements from the k-th on, within the
\* transaction; every failure rolls back and returns, the end commits
RECURSIVE RunStatements(_, _, _, _, _)
RunStatements(before, tx, stmts, k, failure) ==
    IF k > Len(stmts)
    THEN CommitOf(before, tx, failure)
    ELSE IF failure.kind = "elapsed" /\ failure.at = k
    THEN RepoAnswer(ELAPSED, "none", Rollback(before, tx))
    ELSE IF InsertError(tx, stmts[k]) # "none"
    THEN RepoAnswer(InsertError(tx, stmts[k]), "none", Rollback(before, tx))
    ELSE RunStatements(before, InsertRow(tx, stmts[k]), stmts, k + 1, failure)

\* repository.rs 124-208
create_speech(tables, speech, failure) ==
    IF failure.kind = "connect" THEN RepoAnswer(ELAPSED, "none", tables)
    ELSE IF failure.kind = "begin" THEN RepoAnswer(IO_ERROR, "none", tables)
    ELSE RunStatements(tables, tables, Statements(speech), 1, failure)

\* The COMMITs of a set of transactions carried out
RECURSIVE CommitAll(_, _)
CommitAll(tables, ts) ==
    IF ts = {} THEN tables
    ELSE LET t == CHOOSE t \in ts : TRUE
         IN CommitAll(Commit(tables, t), ts \ {t})

\* The COMMITs in flight the server carries out while delete_speech runs:
\* those it carries out before the k-th DELETE is answered, for each k
CommitPoints(in_flight) ==
    {c \in [1..3 -> SUBSET in_flight] :
        \A i, j \in 1..3 : i # j => c[i] \cap c[j] = {}}

\* repository.rs 279-335: the tables of the three DELETEs in their order,
\* and the rows a DELETE meets
DeleteTables == << "speech_person", "sentence", "speech" >>
Matching(tables, tbl, uid) ==
    {r \in tables[tbl] : (IF tbl = "speech" THEN r.uid ELSE r.speech_uid) = uid}

\* What delete_speech returns, the tables it leaves, the COMMIT it leaves
\* with the server and the COMMITs carried out while it ran
WAITS == "waits"
DeleteAnswer(answer, done) ==
    [result |-> answer.result, value |-> answer.value, db |-> answer.db,
     late |-> answer.late, done |-> done]

\* repository.rs 279-336: the DELETEs from the k-th on, within the
\* transaction.  Each sees the rows committed when it starts (READ COMMITTED)
\* less those the transaction deleted; `committed` are the tables as
\* committed, `in_flight` the transactions whose COMMIT is still to be
\* carried out, `removed` the rows deleted so far.  A DELETE that meets a row
\* a transaction in flight deleted waits for its COMMIT: it is answered once
\* the COMMIT is carried out, or its deadline passes (WAITS marks the
\* combination that does not occur: answered, with the COMMIT not carried
\* out).  DELETE FROM speech of a speech that a link or a sentence refers to
\* violates the foreign keys (88, 100), which From<Error> (25-27) makes
\* PersonError(PersonNotFound).  Every failure rolls back and returns, the
\* end commits.
RECURSIVE RunDeletes(_, _, _, _, _, _, _, _)
RunDeletes(committed, in_flight, commits, removed, done, k, uid, failure) ==
    IF k > 3
    THEN DeleteAnswer(
            CommitOf(committed,
                     [tbl \in DOMAIN committed |-> committed[tbl] \ removed[tbl]],
                     failure), done)
    ELSE LET tables == CommitAll(committed, commits[k])
             left == in_flight \ commits[k]
             tbl == DeleteTables[k]
             visible == [x \in DOMAIN tables |-> tables[x] \ removed[x]]
             rows == Matching(visible, tbl, uid)
         IN IF failure.kind = "elapsed" /\ failure.at = k
            THEN DeleteAnswer(RepoAnswer(CANNOT_DELETE, "none", tables),
                              done \cup commits[k])
            ELSE IF \E t \in left : rows \cap t.removed[tbl] # {}
            THEN DeleteAnswer(RepoAnswer(WAITS, "none", tables), done \cup commits[k])
            ELSE IF /\ tbl = "speech" /\ rows # {}
                    /\ \/ Matching(visible, "speech_person", uid) # {}
                       \/ Matching(visible, "sentence", uid) # {}
            THEN DeleteAnswer(RepoAnswer("person_not_found", "none", tables),
                              done \cup commits[k])
            ELSE RunDeletes(tables, left, commits,
                            [removed EXCEPT ![tbl] = @ \cup rows],
                            done \cup commits[k], k + 1, uid, failure)

\* repository.rs 271-338: three DELETEs in one transaction
delete_speech(tables, in_flight, commits, uid, failure) ==
    IF failure.kind = "connect"
    THEN DeleteAnswer(RepoAnswer(ELAPSED, "none", tables), {})
    ELSE IF failure.kind = "begin"
    THEN DeleteAnswer(RepoAnswer(IO_ERROR, "none", tables), {})
    ELSE RunDeletes(tables, in_flight, commits,
                    [tbl \in DOMAIN tables |-> {}], {}, 1, uid, failure)

\* An INSERT of a row whose key an open transaction has written or deleted
\* waits for that transaction to end: create_speech goes on with what the
\* tables hold once the COMMIT in flight is carried out.  It waits when an
\* insert of its own meets such a row, that is when the database answers it
\* otherwise after the COMMIT than before.
NoFailure == [kind |-> "none", at |-> 0]
WaitsForCommit(tables, in_flight, speech) ==
    \E t \in in_flight :
        create_speech(tables, speech, NoFailure).result
          # create_speech(Commit(tables, t), speech, NoFailure).result

----------------------------------------------------------------------------
(* SpecSpeech: create_speech and delete_speech called one after the other *)

SpeechUids == {"s1", "s2"}

\* Two persons the speeches may name
Speaker1 == PersonOf("u1", << "A" >>, << "B" >>, "2000-01-03", 0, << 0, 0, 0, 0 >>)
Speaker2 == PersonOf("u2", << "C" >>, << "B" >>, "2000-01-03", 0, << 0, 0, 0, 0 >>)

\* The speakers and the sentences of a speech: none; two speakers and two
\* sentences; two speakers and two sentences of one uid
SpeechContents ==
    { [speakers |-> << >>, sentences |-> << >>],
      [speakers |-> << "u1", "u2" >>,
       sentences |-> << SentenceOf("x1", "u1", "t1", FALSE),
                        SentenceOf("x2", "u2", "t2", TRUE) >>],
      [speakers |-> << "u1", "u2" >>,
       sentences |-> << SentenceOf("x1", "u1", "t1", FALSE),
                        SentenceOf("x1", "u1", "t1", FALSE) >>] }

\* Speeches: s1 and s2 of one name, date and media, and s2 of another name
Speeches ==
    { SpeechOf(id[1], id[2], "2024-01-01T00:00:00+00:00", c.speakers, c.sentences,
               "TF1", "PENDING") :
        id \in { << "s1", "n1" >>, << "s2", "n1" >>, << "s2", "n2" >> },
        c \in SpeechContents }

\* A call that waits for a COMMIT in flight returns when the server has
\* carried the COMMIT out (ServerCommits comes first), or when the deadline
\* of its statement passes
CallCreateSpeech ==
    /\ \E speech \in Speeches :
         \E failure \in SpeechFailures(Len(Statements(speech))) :
         LET answer == create_speech(db, speech, failure) IN
         /\ \/ ~WaitsForCommit(db, pending, speech)
            \/ failure.kind \in {"connect", "begin"}
            \/ answer.result = ELAPSED
         /\ Cardinality(pending \cup answer.late) <= MaxInFlight
         /\ db' = answer.db
         /\ pending' = pending \cup answer.late
         /\ repo_ret' = RepoRet("create_speech", speech, answer)
    /\ UNCHANGED <<given, gone>>
    /\ UNCHANGED pipelineVars
    /\ UNCHANGED keyVars

\* The DELETEs see no row of a transaction that is not committed; the
\* server may carry out a COMMIT in flight between two of them
CallDeleteSpeech ==
    /\ \E uid \in SpeechUids, failure \in SpeechFailures(3),
          commits \in CommitPoints(pending) :
         LET answer == delete_speech(db, pending, commits, uid, failure) IN
         /\ answer.result # WAITS
         /\ Cardinality((pending \ answer.done) \cup answer.late) <= MaxInFlight
         /\ db' = answer.db
         /\ pending' = (pending \ answer.done) \cup answer.late
         /\ repo_ret' = RepoRet("delete_speech", uid, answer)
    /\ UNCHANGED <<given, gone>>
    /\ UNCHANGED pipelineVars
    /\ UNCHANGED keyVars

\* The database server carries out a COMMIT whose caller has returned
\* (repository.rs 206, 336)
ServerCommits ==
    /\ \E t \in pending :
         /\ db' = Commit(db, t)
         /\ pending' = pending \ {t}
         /\ repo_ret' = ServerRet
    /\ UNCHANGED <<given, gone>>
    /\ UNCHANGED pipelineVars
    /\ UNCHANGED keyVars

InitSpeech ==
    /\ now = 0
    /\ jwks = << >>
    /\ env_url = TRUE
    /\ cache_init = TRUE
    /\ cache = [keys |-> EmptyKeys, last_fetched |-> 0]
    /\ mutex = NoTask
    /\ pc = [t \in {1} |-> "idle"]
    /\ keys_ret = [t \in {1} |-> NoRet]
    /\ did_fetch = [t \in {1} |-> FALSE]
    /\ in_batch = [t \in {1} |-> FALSE]
    /\ req = [t \in {1} |-> NoRequest]
    /\ token_ret = [t \in {1} |-> NoToken]
    /\ calls = [t \in {1} |-> << >>]
    /\ resp = [t \in {1} |-> NoResponse]
    /\ store = EmptyStore
    /\ params_ret = [t \in {1} |-> EmptyParams]
    /\ local_path = [t \in {1} |-> << >>]
    /\ \E people \in { {Speaker1}, {Speaker1, Speaker2} } :
         db = [EmptyDb EXCEPT !.person = {PersonRow(p) : p \in people}]
    /\ repo_ret = NoCall /\ given = {} /\ gone = {} /\ pending = {}

NextSpeech ==
    \/ CallCreateSpeech
    \/ CallDeleteSpeech
    \/ ServerCommits

SpecSpeech == InitSpeech /\ [][NextSpeech]_vars

----------------------------------------------------------------------------
(* Claims on the speech repository (SpecSpeech) *)

\* The rows create_speech writes for a speech
RowsOf(speech) ==
    [person |-> {},
     speech |-> {SpeechRow(speech)},
     speech_person |-> {LinkRow(speech, speech.speakers[i]) :
                          i \in 1..Len(speech.speakers)},
     sentence |-> {SentenceRow(speech, speech.sentences[j], j - 1) :
                     j \in 1..Len(speech.sentences)}]

\* C39 as stated: create_speech is all-or-nothing: when it returns Ok the
\* speech row, all its speaker links and all its sentences were added to the
\* tables, and when it returns Err the tables are as they were before the
\* call.
C39_CreateSpeechAllOrNothing ==
    [][repo_ret'.op = "create_speech"
       => LET rows == RowsOf(repo_ret'.arg) IN
          IF repo_ret'.result = "ok"
          THEN db' = [tbl \in DOMAIN db |-> db[tbl] \cup rows[tbl]]
          ELSE db' = db]_vars

\* C39 amended: after create_speech returns, either all the rows of the
\* speech were added to the tables or the tables are as they were, never a
\* part; Ok means all were added; Err means none was, whichever insert
\* failed or timed out, unless the error is that of the connection (the
\* final commit), after which either may be the case.
C39_AllOrNothingUnlessCommitFails ==
    [][repo_ret'.op = "create_speech"
       => LET rows == RowsOf(repo_ret'.arg)
              all == [tbl \in DOMAIN db |-> db[tbl] \cup rows[tbl]]
          IN /\ db' \in {db, all}
             /\ repo_ret'.result = "ok" => db' = all
             /\ repo_ret'.result \notin {"ok", IO_ERROR} => db' = db]_vars

\* C39 witness: a create_speech with two speakers and two sentences of one
\* uid failed at its last insert, after the speech row, the links and the
\* first sentence were written, and none of its rows is stored
C39_Witness ==
    /\ repo_ret.op = "create_speech"
    /\ repo_ret.result = "already_exists"
    /\ Len(repo_ret.arg.speakers) = 2
    /\ Len(repo_ret.arg.sentences) = 2
    /\ repo_ret.arg.sentences[1].uid = repo_ret.arg.sentences[2].uid
    /\ \A r \in db.person : r.uid \in {"u1", "u2"}
    /\ Cardinality(db.person) = 2
    /\ db.speech = {} /\ db.speech_person = {} /\ db.sentence = {}

====
